---- MODULE Spec2Model ----
(***************************************************************************)
(* Model of the deployment core of One-Click-Deploy:                       *)
(*   - TerraformRunner / runTerraform     (src/core/iac/runner.ts)         *)
(*   - DeploymentPipeline.execute         (src/unnamed/part_000)           *)
(*   - createPlan / validatePlan          (src/core/planner/index.ts)      *)
(*   - generateIaC stack selection        (src/core/iac/generator/index.ts)*)
(*   - startRun / processDeployment       (src/apps/api/src/run.ts)        *)
(*                                                                         *)
(* One action is one synchronous segment of the code between two awaits of *)
(* an external operation (a terraform/git command, the builder, file I/O). *)
(* A message (error.message, a log message) is a sequence of string        *)
(* tokens; an optional value is a sequence of length 0 (unset) or 1.       *)
(***************************************************************************)
EXTENDS Integers, Sequences, FiniteSets, TLC

VARIABLES
    \* ---- TerraformRunner -------------------------------------------------
    tpc,        \* position of the runner (label of the next awaited command)
    cmds,       \* every terraform command issued so far, with its outcome
    tlogs,      \* TerraformRunner.logs
    tfplan,     \* whether the plan artifact <workdir>/tfplan exists
    planSite,   \* call site of the plan() invocation in progress
    planInv,    \* number of plan() invocations started
    planRets,   \* return values of the completed plan() invocations
    lockId,     \* lockId captured by the plan() invocation in progress
    applyErr,   \* output of the failed apply caught at runner.ts:148
    recErrs,    \* messages caught by the recovery catch blocks of apply()
    tfResult,   \* the TerraformResult returned (optional)
    \* ---- DeploymentPipeline / run record ----------------------------------
    pc,         \* position of DeploymentPipeline.execute / processDeployment
    logs,       \* DeploymentPipeline.logs
    run,        \* the RunInfo record of the run in the `runs` table
    input,      \* the DeploymentRequest and the process.env flags of the run
    deploySpec, \* parseDescription's DeploySpec (optional)
    repoFacts,  \* analyzeRepo's RepoFacts (optional)
    plan,       \* createPlan's Plan (optional)
    defaultBranch, \* cloneRepository's defaultBranch
    clones,     \* every git command issued so far, with its outcome
    imageUri,   \* execute's imageUri (optional)
    ops,        \* the stages whose work has started, in order
    fails,      \* the stage failures raised so far
    result,     \* the PipelineResult execute returned (optional)
    rejected,   \* whether execute's promise rejected
    \* ---- planner called on its own -----------------------------------------
    errors,     \* the list validatePlan returned (optional)
    \* ---- generateIaC and the work directory --------------------------------
    gpc,        \* position of generateIaC and of the tfvars patches after it
    templates,  \* the stacks whose template directory exists under stacks/aws
    stacks,     \* generateIaC's stacks
    disk,       \* the paths written under the work directory so far
    mainTf,     \* the module blocks of the main.tf written (optional)
    tfVars,     \* the content of terraform.tfvars.json (optional)
    genErr,     \* the error generateIaC rejected with (optional)
    backendTf,  \* the backend.tf files written so far, each with its app name
    \* ---- two runs on one remote state backend ------------------------------
    backendLock, \* the lock item of the state backend (optional lock ID)
    runAt,      \* per run: the terraform command it is at, called or running
    seenLock,   \* per run: the lock ID its last lock error reported
    forced      \* the force-unlocks that removed a lock, in order

runnerVars == <<tpc, cmds, tlogs, tfplan, planSite, planInv, planRets, lockId,
                applyErr, recErrs, tfResult>>
genVars == <<gpc, templates, stacks, disk, mainTf, tfVars, genErr, backendTf>>
lockVars == <<backendLock, runAt, seenLock, forced>>
pipeVars == <<pc, input, deploySpec, repoFacts, plan, defaultBranch, clones, imageUri,
              ops, fails, result, rejected, errors, genVars, lockVars>>
vars == <<runnerVars, pipeVars, logs, run>>

None == <<>>
Some(x) == <<x>>

(***************************************************************************)
(* Outcomes of an external terraform command.  "ok" is exit code 0; every  *)
(* other name is a failure whose combined stdout/stderr holds the          *)
(* substrings the runner searches for.                                     *)
(***************************************************************************)
NoId == "none"

FailOutputs == {"plain", "lock_a1", "lock_noid", "exists", "exists_lock_b2"}

\* The substrings of `${stdout}\n${stderr}` the runner tests with includes(),
\* and the first capture of /ID:\s*([a-f0-9\-]+)/i.
OutFlags(o) ==
    CASE o = "lock_a1"        -> [acq |-> TRUE,  ccfe |-> TRUE,  riu |-> FALSE, tae |-> FALSE, id |-> "a1"]
      [] o = "lock_noid"      -> [acq |-> TRUE,  ccfe |-> TRUE,  riu |-> FALSE, tae |-> FALSE, id |-> NoId]
      [] o = "exists"         -> [acq |-> FALSE, ccfe |-> FALSE, riu |-> TRUE,  tae |-> TRUE,  id |-> NoId]
      [] o = "exists_lock_b2" -> [acq |-> TRUE,  ccfe |-> TRUE,  riu |-> TRUE,  tae |-> TRUE,  id |-> "b2"]
      [] OTHER                -> [acq |-> FALSE, ccfe |-> FALSE, riu |-> FALSE, tae |-> FALSE, id |-> NoId]

\* all.includes("Error acquiring the state lock") && all.includes("ConditionalCheckFailedException")
LockSig(o) == OutFlags(o).acq /\ OutFlags(o).ccfe

\* all.includes("ResourceInUseException") && all.includes("Table already exists")
ExistsSig(o) == OutFlags(o).riu /\ OutFlags(o).tae

\* idMatch?.[1]
LockIdOf(o) == OutFlags(o).id

\* the guard of the force-unlock recovery: the signature and a truthy lockId
NeedsUnlock(o) == LockSig(o) /\ LockIdOf(o) # NoId

\* error.message of a rejected execa call: the command line and its output
ExecaMessage(cmd, o) == <<"Command failed", cmd, o>>

Cmd(c, a, o, inv) == [cmd |-> c, arg |-> a, out |-> o, inv |-> inv, hadPlan |-> tfplan]

\* process.env without TF_BUCKET, TF_DDB_TABLE and TF_STATE_KEY
NoTfEnv == [bucket |-> "null", table |-> "null", key |-> "null"]

\* the values uuidv4() returns to startRun and to the DeploymentPipeline
\* constructor, in the order of the calls
RecordId == input.uuids[1]
PipelineRunId == input.uuids[2]

\* path.join(this.workRoot, this.runId)
WorkDir == <<"WORK_ROOT", PipelineRunId>>

Entry(step, level, msg) ==
    [run_id |-> PipelineRunId, step |-> step, level |-> level, message |-> msg]

\* number of failed commands in a command history
NumFailed(h) == Cardinality({i \in 1..Len(h) : h[i].out # "ok"})

\* Bound on the failing terraform commands of one pipeline run; a runner
\* driven on its own (pc = "standalone") is not bounded.
MaxTfFailures == 1

\* outcomes of a command whose output the runner inspects (the first plan
\* and the first apply of an invocation)
Outcomes ==
    {"ok"} \cup (IF pc = "standalone" \/ NumFailed(cmds) < MaxTfFailures
                 THEN FailOutputs ELSE {})

\* outcomes of a command whose failure output the runner only logs
PlainOutcomes == Outcomes \cap {"ok", "plain"}

(***************************************************************************)
(* TerraformRunner                                                         *)
(***************************************************************************)
RetLabels_noinit == {"ret_plan_failed", "ret_apply_failed", "ret_success"}

\* the labels of runTerraform's return statements
RetLabels == {"ret_init_failed", "ret_plan_failed", "ret_apply_failed", "ret_success"}

InitFailedNext_continue == "apply_start"

\* runTerraform: `if (!initSuccess) return {success: false, ...}`
InitFailedNext == "ret_init_failed"

\* apply(): `if (!planSuccess) return {success: false, error: "Plan failed"}`
PlanFailedNext == "ret_plan_failed"

RetryFailedReturn_true == TRUE

\* plan(): the catch of the force-unlock/retry block falls through to `return false`
RetryFailedReturn == FALSE

\* apply(), after the import recovery did not return: the lock-conflict check
AfterImport(orig) == IF NeedsUnlock(orig) THEN "lock_unlock" ELSE "ret_apply_failed"

AfterApplyFail_either(orig) ==
    IF NeedsUnlock(orig) THEN "lock_unlock"
    ELSE IF ExistsSig(orig) THEN "imp_import" ELSE "ret_apply_failed"
\* apply(), catch: the two recoveries are tested in this order
AfterApplyFail(orig) == IF ExistsSig(orig) THEN "imp_import" ELSE AfterImport(orig)

PlanReturnLabel_again(site, b, orig) ==
    CASE site = "apply"  -> IF b THEN "apply_exec" ELSE PlanFailedNext
      [] site = "import" -> IF b THEN "imp_apply" ELSE AfterImport(orig)
      [] OTHER           -> IF b THEN "lock_apply" ELSE AfterImport(orig)

\* where control goes when plan() returns b to its call site
PlanReturnLabel(site, b, orig) ==
    CASE site = "apply"  -> IF b THEN "apply_exec" ELSE PlanFailedNext
      [] site = "import" -> IF b THEN "imp_apply" ELSE AfterImport(orig)
      [] OTHER           -> IF b THEN "lock_apply" ELSE "ret_apply_failed"

ApplyFailureError_retry(orig, recs) ==
    IF recs # << >> THEN recs[Len(recs)] ELSE ExecaMessage("apply", orig)

\* apply(): the error of the final `return {success: false, error: error.message}`
\* (orig: the caught apply error; recs: what the recovery catch blocks caught)
ApplyFailureError(orig, recs) == ExecaMessage("apply", orig)

\* the TerraformResult of a return label
ResultOf(label, orig, recs, outs) ==
    CASE label = "ret_init_failed" ->
            [success |-> FALSE, error |-> Some(<<"Terraform init failed">>), outputs |-> None]
      [] label = "ret_plan_failed" ->
            [success |-> FALSE, error |-> Some(<<"Plan failed">>), outputs |-> None]
      [] label = "ret_apply_failed" ->
            [success |-> FALSE, error |-> Some(ApplyFailureError(orig, recs)), outputs |-> None]
      [] OTHER ->
            [success |-> TRUE, error |-> None, outputs |-> Some(outs)]

\* messages logged by the segment that ends by awaiting the command at `label`
EnterLogs(label, orig, id) ==
    CASE label = "plan_first"  -> << <<"Running terraform plan...">> >>
      [] label = "imp_import"  -> << <<"Detected existing DynamoDB table. Importing into Terraform state and retrying...">> >>
      [] label = "lock_unlock" -> << <<"Attempting to force-unlock Terraform state", LockIdOf(orig)>> >>
      [] label = "plan_unlock" -> << <<"Attempting to force-unlock Terraform state", id>> >>
      [] OTHER -> << >>

OwnEntries_lost(es, sink) == IF sink = "throws" THEN << >> ELSE es

\* DeploymentPipeline.log: what this.logs gains from the entries es; the push
\* precedes the call of the sink, whose exception is caught and dropped
OwnEntries(es, sink) == es

\* what the sink keeps of the entries handed to it: the callback of
\* processDeployment pushes each on the record's logs; a throwing sink
\* keeps nothing
Streamed(es, sink) == IF sink = "ok" THEN es ELSE << >>

\* TerraformRunner.log, with the logCallback wrapper runTerraform installs
TLog(ms) ==
    /\ tlogs' = tlogs \o ms
    /\ LET es == IF pc = "standalone" THEN << >>
                 ELSE [i \in 1..Len(ms) |-> Entry("terraform", "info", ms[i])]
       IN /\ logs' = logs \o OwnEntries(es, input.sink)
          /\ run' = [run EXCEPT !.logs = @ \o Streamed(es, input.sink)]

Goto(label, orig, recs, outs) ==
    /\ tpc' = IF label \in RetLabels THEN "done" ELSE label
    /\ tfResult' = IF label \in RetLabels THEN Some(ResultOf(label, orig, recs, outs))
                   ELSE tfResult

\* runner.init()
TfInit ==
    /\ tpc = "init"
    /\ \E o \in PlainOutcomes :
          LET nxt == IF o = "ok" THEN "apply_start" ELSE InitFailedNext
              ms  == IF o = "ok"
                     THEN << <<"Running terraform init...">>, <<"stdout", "init">>,
                             <<"Terraform init completed successfully">> >>
                     ELSE << <<"Running terraform init...">>,
                             <<"Terraform init failed">> \o ExecaMessage("init", o) >>
          IN /\ cmds' = Append(cmds, Cmd("init", "", o, 0))
             /\ TLog(ms)
             /\ Goto(nxt, applyErr, recErrs, {})
    /\ UNCHANGED <<tfplan, planSite, planInv, planRets, lockId, applyErr, recErrs, pipeVars>>

\* runner.apply(), up to its first command: the plan is computed when absent
TfApplyStart ==
    /\ tpc = "apply_start"
    /\ IF tfplan
       THEN /\ TLog(<< <<"Running terraform apply...">> >>)
            /\ tpc' = "apply_exec"
            /\ UNCHANGED <<planSite, planInv>>
       ELSE /\ TLog(<< <<"Running terraform apply...">> >> \o EnterLogs("plan_first", applyErr, lockId))
            /\ tpc' = "plan_first"
            /\ planSite' = "apply"
            /\ planInv' = planInv + 1
    /\ UNCHANGED <<cmds, tfplan, planRets, lockId, applyErr, recErrs, tfResult, pipeVars>>

\* runner.plan(): the first `terraform plan`
TfPlanFirst ==
    /\ tpc = "plan_first"
    /\ \E o \in Outcomes :
          LET unlock == o # "ok" /\ NeedsUnlock(o)
              ret == (o = "ok")
              nxt == IF unlock THEN "plan_unlock" ELSE PlanReturnLabel(planSite, ret, applyErr)
              ms  == IF o = "ok"
                     THEN << <<"stdout", "plan">>, <<"Terraform plan completed successfully">> >>
                     ELSE << <<"Terraform plan failed">> \o ExecaMessage("plan", o) >>
          IN /\ cmds' = Append(cmds, Cmd("plan", planSite, o, planInv))
             /\ tfplan' = (tfplan \/ o = "ok")
             /\ lockId' = IF unlock THEN LockIdOf(o) ELSE lockId
             /\ planRets' = IF unlock THEN planRets ELSE Append(planRets, ret)
             /\ TLog(ms \o EnterLogs(nxt, applyErr, LockIdOf(o)))
             /\ Goto(nxt, applyErr, recErrs, {})
    /\ UNCHANGED <<planSite, planInv, applyErr, recErrs, pipeVars>>

\* runner.plan(): `terraform force-unlock -force <lockId>`
TfPlanUnlock ==
    /\ tpc = "plan_unlock"
    /\ \E o \in PlainOutcomes :
          LET nxt == IF o = "ok" THEN "plan_retry"
                     ELSE PlanReturnLabel(planSite, RetryFailedReturn, applyErr)
              ms  == IF o = "ok"
                     THEN << <<"State force-unlocked. Retrying plan once...">> >>
                     ELSE << <<"Force-unlock/Retry failed">> \o ExecaMessage("force-unlock", o) >>
          IN /\ cmds' = Append(cmds, Cmd("force-unlock", lockId, o, planInv))
             /\ planRets' = IF o = "ok" THEN planRets ELSE Append(planRets, RetryFailedReturn)
             /\ TLog(ms \o EnterLogs(nxt, applyErr, lockId))
             /\ Goto(nxt, applyErr, recErrs, {})
    /\ UNCHANGED <<tfplan, planSite, planInv, lockId, applyErr, recErrs, pipeVars>>

\* runner.plan(): the single retry of `terraform plan`
TfPlanRetry ==
    /\ tpc = "plan_retry"
    /\ \E o \in PlainOutcomes :
          LET ret == IF o = "ok" THEN TRUE ELSE RetryFailedReturn
              nxt == PlanReturnLabel(planSite, ret, applyErr)
              ms  == IF o = "ok"
                     THEN << <<"stdout", "plan">>,
                             <<"Terraform plan completed successfully (after unlock)">> >>
                     ELSE << <<"Force-unlock/Retry failed">> \o ExecaMessage("plan", o) >>
          IN /\ cmds' = Append(cmds, Cmd("plan", planSite, o, planInv))
             /\ tfplan' = (tfplan \/ o = "ok")
             /\ planRets' = Append(planRets, ret)
             /\ TLog(ms \o EnterLogs(nxt, applyErr, lockId))
             /\ Goto(nxt, applyErr, recErrs, {})
    /\ UNCHANGED <<planSite, planInv, lockId, applyErr, recErrs, pipeVars>>

\* the three `terraform apply` calls of apply(): the first one, the retry of
\* the import recovery and the retry of the lock recovery
ApplyOk(suffix) ==
    << <<"stdout", "apply">>, <<"Terraform apply completed successfully" \o suffix>> >>

\* runner.apply(): `terraform apply -auto-approve -input=false tfplan`
TfApplyExec ==
    /\ tpc = "apply_exec"
    /\ \E o \in Outcomes :
          LET nxt == IF o = "ok" THEN "getout" ELSE AfterApplyFail(o)
              ms  == IF o = "ok" THEN ApplyOk("")
                     ELSE << <<"Terraform apply failed">> \o ExecaMessage("apply", o) >>
          IN /\ cmds' = Append(cmds, Cmd("apply", "first", o, 0))
             /\ applyErr' = IF o = "ok" THEN applyErr ELSE o
             /\ TLog(ms \o EnterLogs(nxt, o, lockId))
             /\ Goto(nxt, o, recErrs, {})
    /\ UNCHANGED <<tfplan, planSite, planInv, planRets, lockId, recErrs, pipeVars>>

\* apply(), import recovery: `terraform import <address> Employee`
TfImport ==
    /\ tpc = "imp_import"
    /\ \E o \in PlainOutcomes :
          LET nxt  == IF o = "ok" THEN "plan_first" ELSE AfterImport(applyErr)
              recs == IF o = "ok" THEN recErrs ELSE Append(recErrs, ExecaMessage("import", o))
              ms   == IF o = "ok" THEN << >>
                      ELSE << <<"Import/Retry failed">> \o ExecaMessage("import", o) >>
          IN /\ cmds' = Append(cmds, Cmd("import", "Employee", o, 0))
             /\ recErrs' = recs
             /\ planSite' = IF o = "ok" THEN "import" ELSE planSite
             /\ planInv' = IF o = "ok" THEN planInv + 1 ELSE planInv
             /\ TLog(ms \o EnterLogs(nxt, applyErr, lockId))
             /\ Goto(nxt, applyErr, recs, {})
    /\ UNCHANGED <<tfplan, planRets, lockId, applyErr, pipeVars>>

\* apply(), import recovery: the retried `terraform apply`
TfImportApply ==
    /\ tpc = "imp_apply"
    /\ \E o \in PlainOutcomes :
          LET nxt  == IF o = "ok" THEN "getout" ELSE AfterImport(applyErr)
              recs == IF o = "ok" THEN recErrs ELSE Append(recErrs, ExecaMessage("apply", o))
              ms   == IF o = "ok" THEN ApplyOk(" (after import)")
                      ELSE << <<"Import/Retry failed">> \o ExecaMessage("apply", o) >>
          IN /\ cmds' = Append(cmds, Cmd("apply", "import", o, 0))
             /\ recErrs' = recs
             /\ TLog(ms \o EnterLogs(nxt, applyErr, lockId))
             /\ Goto(nxt, applyErr, recs, {})
    /\ UNCHANGED <<tfplan, planSite, planInv, planRets, lockId, applyErr, pipeVars>>

\* apply(), lock recovery: `terraform force-unlock -force <lockId>`
TfLockUnlock ==
    /\ tpc = "lock_unlock"
    /\ \E o \in PlainOutcomes :
          LET nxt  == IF o = "ok" THEN "plan_first" ELSE "ret_apply_failed"
              recs == IF o = "ok" THEN recErrs ELSE Append(recErrs, ExecaMessage("force-unlock", o))
              ms   == IF o = "ok" THEN << <<"State force-unlocked. Retrying plan+apply once...">> >>
                      ELSE << <<"Force-unlock/Retry failed">> \o ExecaMessage("force-unlock", o) >>
          IN /\ cmds' = Append(cmds, Cmd("force-unlock", LockIdOf(applyErr), o, 0))
             /\ recErrs' = recs
             /\ planSite' = IF o = "ok" THEN "lock" ELSE planSite
             /\ planInv' = IF o = "ok" THEN planInv + 1 ELSE planInv
             /\ TLog(ms \o EnterLogs(nxt, applyErr, lockId))
             /\ Goto(nxt, applyErr, recs, {})
    /\ UNCHANGED <<tfplan, planRets, lockId, applyErr, pipeVars>>

\* apply(), lock recovery: the retried `terraform apply`
TfLockApply ==
    /\ tpc = "lock_apply"
    /\ \E o \in PlainOutcomes :
          LET nxt  == IF o = "ok" THEN "getout" ELSE "ret_apply_failed"
              recs == IF o = "ok" THEN recErrs ELSE Append(recErrs, ExecaMessage("apply", o))
              ms   == IF o = "ok" THEN ApplyOk(" (after unlock)")
                      ELSE << <<"Force-unlock/Retry failed">> \o ExecaMessage("apply", o) >>
          IN /\ cmds' = Append(cmds, Cmd("apply", "lock", o, 0))
             /\ recErrs' = recs
             /\ TLog(ms)
             /\ Goto(nxt, applyErr, recs, {})
    /\ UNCHANGED <<tfplan, planSite, planInv, planRets, lockId, applyErr, pipeVars>>

\* JavaScript truthiness of `string | null` (null is written "null")
Truthy(v) == v # "null"

\* generateIaC: the stacks selected for a plan, in order
AllStacks == {"ecr", "apprunner_service", "ecs_fargate_service", "alb_path_router",
              "cloudfront_s3_static_site", "rds_postgres", "dynamodb_sample"}

SelectStacks_noFront(p) ==
    (IF p.runtime # "s3_cloudfront" THEN <<"ecr">> ELSE << >>)
    \o (IF p.runtime = "apprunner" THEN <<"apprunner_service">>
        ELSE IF p.runtime = "ecs_fargate" THEN <<"ecs_fargate_service">>
        ELSE IF p.runtime = "s3_cloudfront"
             THEN <<"cloudfront_s3_static_site">>
             ELSE << >>)
    \o (IF Truthy(p.db) THEN <<"rds_postgres">> ELSE << >>)
    \o (IF p.runtime = "ecs_fargate" THEN <<"dynamodb_sample">> ELSE << >>)

SelectStacks_ecrAlways(p) ==
    <<"ecr">>
    \o (IF p.runtime = "apprunner" THEN <<"apprunner_service">>
        ELSE IF p.runtime = "ecs_fargate"
             THEN <<"ecs_fargate_service">>
                  \o (IF Truthy(p.front) THEN <<"alb_path_router">> ELSE << >>)
             ELSE IF p.runtime = "s3_cloudfront" \/ p.front = "s3_cloudfront"
                  THEN <<"cloudfront_s3_static_site">>
                  ELSE << >>)
    \o (IF Truthy(p.db) THEN <<"rds_postgres">> ELSE << >>)
    \o (IF p.runtime = "ecs_fargate" THEN <<"dynamodb_sample">> ELSE << >>)

\* generateIaC: the stacks to include, in the order they are pushed
SelectStacks(p) ==
    (IF p.runtime # "s3_cloudfront" THEN <<"ecr">> ELSE << >>)
    \o (IF p.runtime = "apprunner" THEN <<"apprunner_service">>
        ELSE IF p.runtime = "ecs_fargate"
             THEN <<"ecs_fargate_service">>
                  \o (IF Truthy(p.front) THEN <<"alb_path_router">> ELSE << >>)
             ELSE IF p.runtime = "s3_cloudfront" \/ p.front = "s3_cloudfront"
                  THEN <<"cloudfront_s3_static_site">>
                  ELSE << >>)
    \o (IF Truthy(p.db) THEN <<"rds_postgres">> ELSE << >>)
    \o (IF p.runtime = "ecs_fargate" THEN <<"dynamodb_sample">> ELSE << >>)

Includes(stks, s) == \E i \in 1..Len(stks) : stks[i] = s

generateOutputsTf_url(stks) ==
    (IF Includes(stks, "apprunner_service") \/ Includes(stks, "ecs_fargate_service")
     THEN <<"service_url">> ELSE << >>)
    \o (IF Includes(stks, "ecs_fargate_service") THEN <<"alb_dns_name">> ELSE << >>)
    \o (IF Includes(stks, "cloudfront_s3_static_site") THEN <<"cdn_url">> ELSE << >>)

\* generateOutputsTf: the outputs declared
generateOutputsTf(stks) ==
    (IF Includes(stks, "apprunner_service") THEN <<"service_url">> ELSE << >>)
    \o (IF Includes(stks, "ecs_fargate_service") THEN <<"alb_dns_name">> ELSE << >>)
    \o (IF Includes(stks, "cloudfront_s3_static_site") THEN <<"cdn_url">> ELSE << >>)

\* the outputs `terraform output -json` prints in the work directory of the
\* plan: one value for each output the root outputs.tf declares
PlanOutputs ==
    LET ks == generateOutputsTf(SelectStacks(plan[1]))
    IN [k \in {ks[i] : i \in 1..Len(ks)} |-> <<"https://", k, "example">>]

\* What `terraform output -json` prints, parsed: output key |-> its value
\* (a message; the empty message is the empty string).  Family "stack" holds
\* what a root outputs.tf of the generator declares (one URL output per
\* stack); family "any" adds working directories with both URL outputs and
\* with an empty service_url value.
StackOutputs ==
    {[service_url |-> <<"https://svc.example">>],
     [alb_dns_name |-> <<"alb.example">>],
     [cdn_url |-> <<"https://cdn.example">>]}

OutputsOf(family) ==
    IF family = "stack" THEN StackOutputs
    ELSE IF family = "plan" THEN {PlanOutputs}
    ELSE StackOutputs \cup
         {[service_url |-> <<"https://svc.example">>, cdn_url |-> <<"https://cdn.example">>],
          [service_url |-> << >>, cdn_url |-> <<"https://cdn.example">>],
          [service_url |-> << >>]}

TfGetOutputs ==
    /\ tpc = "getout"
    /\ \E o \in PlainOutcomes :
          \E outs \in (IF o = "ok" THEN OutputsOf(input.outputs) ELSE {<< >>}) :
             /\ cmds' = Append(cmds, Cmd("output", "", o, 0))
             /\ TLog(IF o = "ok" THEN << >>
                     ELSE << <<"Failed to get terraform outputs">> \o ExecaMessage("output", o) >>)
             /\ Goto("ret_success", applyErr, recErrs, outs)
    /\ UNCHANGED <<tfplan, planSite, planInv, planRets, lockId, applyErr, recErrs, pipeVars>>

RunnerNext ==
    \/ TfInit
    \/ TfApplyStart
    \/ TfPlanFirst
    \/ TfPlanUnlock
    \/ TfPlanRetry
    \/ TfApplyExec
    \/ TfImport
    \/ TfImportApply
    \/ TfLockUnlock
    \/ TfLockApply
    \/ TfGetOutputs

\* no run is using the state backend
LockIdle ==
    /\ backendLock = None
    /\ runAt = << >>
    /\ seenLock = << >>
    /\ forced = << >>

\* generateIaC is not running
GenIdle ==
    /\ gpc = "idle"
    /\ templates = {}
    /\ stacks = << >>
    /\ disk = {}
    /\ mainTf = None
    /\ tfVars = None
    /\ genErr = None
    /\ backendTf = << >>

\* runTerraform(workdir, varsFile) called on its own, without a logCallback,
\* on a work directory that may already hold a plan artifact
RunnerInit ==
    /\ tpc = "init"
    /\ cmds = << >>
    /\ tlogs = << >>
    /\ tfplan \in BOOLEAN
    /\ planSite = "none"
    /\ planInv = 0
    /\ planRets = << >>
    /\ lockId = NoId
    /\ applyErr = "ok"
    /\ recErrs = << >>
    /\ tfResult = None
    /\ pc = "standalone"
    /\ logs = << >>
    /\ run = [id |-> "none", status |-> "none", logs |-> << >>, error |-> None, service_url |-> None]
    /\ input = [descOk |-> TRUE, branch |-> "none", useReal |-> TRUE, registry |-> FALSE,
                sink |-> "ok", outputs |-> "stack", uuids |-> <<"u1", "u2">>,
                tfEnv |-> NoTfEnv]
    /\ deploySpec = None
    /\ repoFacts = None
    /\ plan = None
    /\ defaultBranch = "master"
    /\ clones = << >>
    /\ imageUri = None
    /\ ops = << >>
    /\ fails = << >>
    /\ result = None
    /\ rejected = FALSE
    /\ errors = None
    /\ GenIdle
    /\ LockIdle

SpecRunner == RunnerInit /\ [][RunnerNext]_vars

(***************************************************************************)
(* Claims about the Terraform Runner (checked under SpecRunner)            *)
(***************************************************************************)
CmdIdx(c) == {i \in 1..Len(cmds) : cmds[i].cmd = c}
InvIdx(k) == {i \in 1..Len(cmds) : cmds[i].inv = k}
Min(S) == CHOOSE x \in S : \A y \in S : x <= y
Max(S) == CHOOSE x \in S : \A y \in S : x >= y
\* the k-th completed plan() invocation: its commands by kind
PlansOf(k) == InvIdx(k) \cap CmdIdx("plan")
UnlocksOf(k) == InvIdx(k) \cap CmdIdx("force-unlock")
FirstOut(k) == cmds[Min(InvIdx(k))].out
\* the plan() invocations whose first plan failed with the lock-conflict
\* signature and a lock identifier
LockConflicts == {k \in 1..Len(planRets) : FirstOut(k) # "ok" /\ NeedsUnlock(FirstOut(k))}

\* C1 as stated: a plan() invocation whose first plan fails with the
\* lock-conflict signature and identifier L issues exactly one force-unlock
\* with L, retries plan exactly once and returns the retry's result.
C1_Original ==
    \A k \in LockConflicts :
        /\ Cardinality(UnlocksOf(k)) = 1
        /\ \A i \in UnlocksOf(k) : cmds[i].arg = LockIdOf(FirstOut(k))
        /\ Cardinality(PlansOf(k)) = 2
        /\ planRets[k] = (cmds[Max(PlansOf(k))].out = "ok")

\* C1 amended: such an invocation issues exactly one force-unlock with L;
\* it retries plan exactly once when the force-unlock succeeded and returns
\* the retry's result; when the force-unlock fails it does not retry and
\* returns false.  There is never a second retry or a second force-unlock.
C1_PlanLockRecovery ==
    \A k \in LockConflicts :
        /\ Cardinality(UnlocksOf(k)) = 1
        /\ \A i \in UnlocksOf(k) :
              /\ cmds[i].arg = LockIdOf(FirstOut(k))
              /\ i = Min(InvIdx(k)) + 1
              /\ IF cmds[i].out = "ok"
                 THEN /\ Cardinality(PlansOf(k)) = 2
                      /\ Max(PlansOf(k)) = i + 1
                      /\ planRets[k] = (cmds[i + 1].out = "ok")
                 ELSE /\ Cardinality(PlansOf(k)) = 1
                      /\ planRets[k] = FALSE

C1_Witness ==
    \E k \in LockConflicts :
        /\ Cardinality(PlansOf(k)) = 2
        /\ cmds[Max(PlansOf(k))].out # "ok"
        /\ planRets[k] = FALSE
        /\ \E j \in LockConflicts : Cardinality(PlansOf(j)) = 1

Returned == tpc = "done" /\ tfResult # None
FirstApplyFailed == \E i \in CmdIdx("apply") : cmds[i].arg = "first" /\ cmds[i].out # "ok"
FirstApplyOut == cmds[Min(CmdIdx("apply"))].out

\* C2 as stated: when apply fails and the attempted recovery itself fails, the
\* returned error is the error the recovery raised, not the original apply's;
\* when no recovery applies it is the original error.
C2_Original ==
    (Returned /\ FirstApplyFailed /\ ~tfResult[1].success) =>
        tfResult[1].error = Some(IF recErrs # << >> THEN recErrs[Len(recErrs)]
                                 ELSE ExecaMessage("apply", FirstApplyOut))

\* C2 amended: whenever the first terraform apply fails and no recovery ends
\* in a successful apply, the result has success = false and its error is the
\* message of the original failed apply, whether or not a recovery was
\* attempted and failed (the recovery's own error is only logged).
C2_ApplyFailureError ==
    (Returned /\ FirstApplyFailed) =>
        \/ /\ tfResult[1].success
           /\ cmds[Max(CmdIdx("apply"))].out = "ok"
        \/ /\ ~tfResult[1].success
           /\ tfResult[1].error = Some(ExecaMessage("apply", FirstApplyOut))
           /\ \A m \in {recErrs[i] : i \in 1..Len(recErrs)} :
                 \E j \in 1..Len(tlogs) : tlogs[j] = <<"Import/Retry failed">> \o m
                                          \/ tlogs[j] = <<"Force-unlock/Retry failed">> \o m

C2_Witness ==
    /\ Returned /\ FirstApplyFailed /\ ~tfResult[1].success
    /\ recErrs # << >>
    /\ recErrs[Len(recErrs)] # ExecaMessage("apply", FirstApplyOut)
    /\ cmds[Len(cmds)].cmd = "apply"

\* C3 as stated: in one invocation of apply (with the plan calls it makes)
\* force-unlock is issued at most once and import at most once.
C3_Original ==
    /\ Cardinality(CmdIdx("force-unlock")) <= 1
    /\ Cardinality(CmdIdx("import")) <= 1

\* C3 amended: import is issued at most once; force-unlock is issued at most
\* once by apply's own lock recovery and at most once by each plan()
\* invocation, of which apply makes at most three, so at most four times
\* in all: the retries are bounded, but not by one per signature.
C3_BoundedRetries ==
    /\ Cardinality(CmdIdx("import")) <= 1
    /\ Cardinality(UnlocksOf(0)) <= 1
    /\ planInv <= 3
    /\ \A k \in 1..planInv : Cardinality(UnlocksOf(k)) <= 1 /\ Cardinality(PlansOf(k)) <= 2
    /\ Cardinality(CmdIdx("force-unlock")) <= 4
    /\ Cardinality(CmdIdx("apply")) <= 3

C3_Witness ==
    /\ Cardinality(CmdIdx("force-unlock")) = 4
    /\ Cardinality(CmdIdx("import")) = 1
    /\ Returned

\* C9: terraform apply is executed only after terraform init succeeded and
\* only with a plan artifact available (on disk from the start, or written
\* by a successful plan of this invocation); a failed init gives a failed
\* result with no plan and no apply; a failed forward plan gives no apply.
C9_ForwardFlow ==
    /\ \A i \in CmdIdx("apply") :
          /\ cmds[1].cmd = "init" /\ cmds[1].out = "ok"
          /\ cmds[i].hadPlan
          /\ cmds[1].hadPlan \/ \E j \in CmdIdx("plan") : j < i /\ cmds[j].out = "ok"
    /\ \A i \in CmdIdx("plan") : cmds[1].cmd = "init" /\ cmds[1].out = "ok"
    /\ (cmds # << >> /\ cmds[1].out # "ok") =>
          /\ Len(cmds) = 1
          /\ Returned /\ ~tfResult[1].success
    /\ \A k \in 1..Len(planRets) :
          (cmds[Min(InvIdx(k))].arg = "apply" /\ ~planRets[k]) =>
              /\ CmdIdx("apply") = {}
              /\ Returned /\ ~tfResult[1].success

C9_Witness ==
    /\ Returned /\ tfResult[1].success
    /\ ~cmds[1].hadPlan
    /\ cmds[2].cmd = "plan" /\ cmds[2].out # "ok"
    /\ Cardinality(CmdIdx("apply")) = 1

(***************************************************************************)
(* Planner                                                                 *)
(***************************************************************************)
\* the predicate of the staticApps filter
IsStatic(app) ==
    \/ app.language = "static"
    \/ /\ app.framework = "react-vite" \/ app.framework = "create-react-app"
       /\ app.start_cmd = "null"

StaticIdx(facts) == {i \in 1..Len(facts.apps) : IsStatic(facts.apps[i])}

\* role web/api, minus the staticApps
HttpIdx(facts) ==
    {i \in 1..Len(facts.apps) : facts.apps[i].role \in {"web", "api"}} \ StaticIdx(facts)

WorkerIdx(facts) == {i \in 1..Len(facts.apps) : facts.apps[i].role \in {"worker", "cron"}}

AnyNeedsDb(facts) == \E i \in 1..Len(facts.apps) : facts.apps[i].needs_db

\* plan.db: set when a database is needed, to the requested kind or postgres
PlanDb_always(needsDb, db) == IF Truthy(db) THEN db ELSE "postgres"

PlanDb_postgres(needsDb, db) == IF needsDb THEN "postgres" ELSE "null"

PlanDb(needsDb, db) == IF needsDb THEN (IF Truthy(db) THEN db ELSE "postgres") ELSE "null"

SelectRuntime_flat(nS, nH, nW, monorepo) ==
    IF nS > 0 /\ nH = 0 /\ nW = 0 /\ ~monorepo THEN "s3_cloudfront"
    ELSE IF nH = 1 /\ nW = 0 /\ ~monorepo THEN "apprunner"
    ELSE IF nH > 0 \/ nW > 0 \/ monorepo THEN "ecs_fargate"
    ELSE "apprunner"

\* the decision logic: the default runtime apprunner stays when no branch is
\* taken
SelectRuntime(nS, nH, nW, monorepo) ==
    IF nS > 0 /\ nH = 0 /\ nW = 0 THEN "s3_cloudfront"
    ELSE IF nH = 1 /\ nW = 0 /\ ~monorepo THEN "apprunner"
    ELSE IF nH > 0 \/ nW > 0 \/ monorepo THEN "ecs_fargate"
    ELSE "apprunner"

\* monorepo routing: the runtime when a monorepo holds static and http apps
MonorepoRuntime(r, nS, nH, monorepo) ==
    IF monorepo /\ nS > 0 /\ nH > 0 THEN "ecs_fargate" ELSE r

PlanFront_noHttp(nS, nH, monorepo) ==
    IF monorepo /\ nS > 0 /\ nH = 0 THEN "s3_cloudfront" ELSE "null"

\* monorepo routing: plan.front
PlanFront(nS, nH, monorepo) == IF monorepo /\ nS > 0 THEN "s3_cloudfront" ELSE "null"

CostAdjustment_anyHttp(r, cost, nH, nW) ==
    IF cost = "low" /\ r = "ecs_fargate" /\ nW = 0 THEN "apprunner" ELSE r

\* the cost adjustment
CostAdjustment(r, cost, nH, nW) ==
    IF cost = "low" /\ r = "ecs_fargate" /\ nH = 1 /\ nW = 0 THEN "apprunner" ELSE r

PerfAdjustment_always(r, perf, needsDb) == IF r = "apprunner" THEN "ecs_fargate" ELSE r

PerfAdjustment_needsDb(r, perf, needsDb) ==
    IF perf = "high" /\ r = "apprunner" /\ needsDb THEN "ecs_fargate" ELSE r

\* the performance adjustment
PerfAdjustment(r, perf, needsDb) ==
    IF perf = "high" /\ r = "apprunner" /\ (needsDb \/ perf = "high") THEN "ecs_fargate" ELSE r

createPlan_perfFirst(spec, facts) ==
    LET needsDb == AnyNeedsDb(facts) \/ Truthy(spec.db)
        nS == Cardinality(StaticIdx(facts))
        nH == Cardinality(HttpIdx(facts))
        nW == Cardinality(WorkerIdx(facts))
        r1 == SelectRuntime(nS, nH, nW, facts.monorepo)
        r2 == MonorepoRuntime(r1, nS, nH, facts.monorepo)
        r3 == PerfAdjustment(r2, spec.perf, needsDb)
        r4 == CostAdjustment(r3, spec.cost, nH, nW)
    IN [runtime |-> r4,
        db      |-> PlanDb(needsDb, spec.db),
        front   |-> PlanFront(nS, nH, facts.monorepo),
        host    |-> spec.domain]

createPlan(spec, facts) ==
    LET needsDb == AnyNeedsDb(facts) \/ Truthy(spec.db)
        nS == Cardinality(StaticIdx(facts))
        nH == Cardinality(HttpIdx(facts))
        nW == Cardinality(WorkerIdx(facts))
        r1 == SelectRuntime(nS, nH, nW, facts.monorepo)
        r2 == MonorepoRuntime(r1, nS, nH, facts.monorepo)
        r3 == CostAdjustment(r2, spec.cost, nH, nW)
        r4 == PerfAdjustment(r3, spec.perf, needsDb)
    IN [runtime |-> r4,
        db      |-> PlanDb(needsDb, spec.db),
        front   |-> PlanFront(nS, nH, facts.monorepo),
        host    |-> spec.domain]

validatePlan_first(p, spec, facts) ==
    IF p.runtime = "s3_cloudfront" /\ Cardinality(HttpIdx(facts)) > 0
    THEN <<"Cannot use S3+CloudFront runtime with HTTP services">>
    ELSE IF p.runtime = "apprunner" /\ Cardinality(HttpIdx(facts)) > 1
         THEN <<"App Runner cannot handle multiple HTTP services">>
         ELSE IF Truthy(p.db) /\ ~AnyNeedsDb(facts) /\ ~Truthy(spec.db)
              THEN <<"Database specified but no apps require database">> ELSE << >>

validatePlan(p, spec, facts) ==
    (IF p.runtime = "s3_cloudfront" /\ Cardinality(HttpIdx(facts)) > 0
     THEN <<"Cannot use S3+CloudFront runtime with HTTP services">> ELSE << >>)
    \o (IF p.runtime = "apprunner" /\ Cardinality(HttpIdx(facts)) > 1
        THEN <<"App Runner cannot handle multiple HTTP services">> ELSE << >>)
    \o (IF Truthy(p.db) /\ ~AnyNeedsDb(facts) /\ ~Truthy(spec.db)
        THEN <<"Database specified but no apps require database">> ELSE << >>)

(***************************************************************************)
(* Inputs of a pipeline run                                                *)
(***************************************************************************)
StaticApp == [role |-> "web", language |-> "static", framework |-> "static",
              start_cmd |-> "null", needs_db |-> FALSE, ports |-> << >>]
FlaskApp == [role |-> "web", language |-> "python", framework |-> "flask",
             start_cmd |-> "gunicorn", needs_db |-> TRUE, ports |-> <<5000>>]
ExpressApp == [role |-> "api", language |-> "javascript", framework |-> "express",
               start_cmd |-> "node server.js", needs_db |-> FALSE, ports |-> <<3000, 8080>>]
ViteApp == [role |-> "web", language |-> "javascript", framework |-> "react-vite",
            start_cmd |-> "null", needs_db |-> FALSE, ports |-> << >>]

\* RepoFacts analyzeRepo returns: monorepo is apps.length > 1
FactsOf(apps) == [apps |-> apps, monorepo |-> Len(apps) > 1]

PipelineFacts == {FactsOf(<<StaticApp>>), FactsOf(<<FlaskApp>>),
                  FactsOf(<<ViteApp, ExpressApp>>), FactsOf(<< >>)}

\* DeploySpecs parseDescription returns
PipelineSpecs ==
    {[app_name |-> "autoapp", region |-> "us-east-2", cost |-> "standard",
      perf |-> "standard", db |-> "null", domain |-> "null"],
     [app_name |-> "autoapp", region |-> "us-east-2", cost |-> "low",
      perf |-> "high", db |-> "postgres", domain |-> "null"]}

\* the symbolic default branch `git ls-remote --symref <repo> HEAD` reports
\* ("nomatch": no `ref: refs/heads/<branch> HEAD` line in its output)
LsRemoteOutputs == {"trunk", "nomatch"}

(***************************************************************************)
(* DeploymentPipeline.execute and processDeployment                        *)
(***************************************************************************)
\* DeploymentPipeline.log: the entry is pushed on this.logs and handed to the
\* onLog callback of processDeployment, which pushes it on the record's logs
PLog(r, es) ==
    /\ logs' = logs \o OwnEntries(es, input.sink)
    /\ run' = [r EXCEPT !.logs = @ \o Streamed(es, input.sink)]

Info(step, text) == Entry(step, "info", <<text>>)

CatchEntry_warn(msg) == Entry("pipeline", "warn", <<"Deployment pipeline failed">> \o msg)

\* the entry logged by execute's top-level catch
CatchEntry(msg) == Entry("pipeline", "error", <<"Deployment pipeline failed">> \o msg)

FailedResult_noLogs(msg, ls) ==
    [success |-> FALSE, runId |-> PipelineRunId, error |-> Some(msg), serviceUrl |-> None,
     logs |-> << >>]

\* the PipelineResult returned by execute's top-level catch
FailedResult(msg, ls) ==
    [success |-> FALSE, runId |-> PipelineRunId, error |-> Some(msg), serviceUrl |-> None,
     logs |-> ls]

CatchRethrows_true(msg) == TRUE

\* execute's top-level catch holds no throw: the promise never rejects
CatchRethrows(msg) == FALSE

\* A stage throws msg: `pre` was logged by the segment before the throw and
\* `post` between the throw and the top-level catch, which logs and returns.
Fail(r, stage, msg, pre, post, ops2) ==
    LET es == pre \o post \o <<CatchEntry(msg)>>
    IN /\ PLog(r, es)
       /\ ops' = ops2
       /\ fails' = Append(fails, [stage |-> stage, msg |-> msg, at |-> Len(ops2),
                                  before |-> logs \o pre, ncmds |-> Len(cmds)])
       /\ rejected' = CatchRethrows(msg)
       /\ result' = IF CatchRethrows(msg) THEN None
                    ELSE Some(FailedResult(msg, logs \o OwnEntries(es, input.sink)))
       /\ pc' = "returned"

\* the end of execute's try block
Succeed(pre, url, ops2) ==
    LET es == pre \o <<Info("pipeline", "Deployment pipeline completed successfully")>>
    IN /\ PLog(run, es)
       /\ ops' = ops2
       /\ result' = Some([success |-> TRUE, runId |-> PipelineRunId, error |-> None,
                          serviceUrl |-> url,
                          logs |-> logs \o OwnEntries(es, input.sink)])
       /\ pc' = "returned"
       /\ UNCHANGED rejected

\* the record of a failure that is caught inside its own step
Swallowed(stage, msg) ==
    Append(fails, [stage |-> stage, msg |-> msg, at |-> Len(ops),
                   before |-> logs, ncmds |-> Len(cmds)])

SimulatedUrl_dynamic(p, ds) == Some(<<"https://", ds.app_name, ".amazonaws.com">>)
\* the service URL of a simulated deployment
SimulatedUrl(p, ds) ==
    IF p.runtime = "s3_cloudfront"
    THEN Some(<<"https://", ds.app_name, "-static.s3.amazonaws.com/index.html">>)
    ELSE Some(<<"https://", ds.app_name, ".amazonaws.com">>)

\* execute from step 6 to its next await, `pre` being logged by the segment
\* so far and img the image URI step 5 left
AfterBuild(pre, img, ops2) ==
    LET d == Info("deploy", "Deploying infrastructure with Terraform")
    IN /\ imageUri' = img
       /\ IF input.useReal
          THEN /\ PLog(run, pre \o <<d>>)
               /\ ops' = Append(ops2, "predeploy_patch")
               /\ pc' = "predeploy_patch"
               /\ UNCHANGED <<result, rejected>>
          ELSE Succeed(pre \o <<d, Info("deploy", "Infrastructure deployment completed (simulated)")>>,
                       SimulatedUrl(plan[1], deploySpec[1]), Append(ops2, "deploy"))

AfterPatch_skipBuild(pre, ops2) == AfterBuild(pre, None, ops2)

\* execute from step 5 to its next await
AfterPatch(pre, ops2) ==
    IF plan[1].runtime # "s3_cloudfront"
    THEN IF input.useReal /\ input.registry
         THEN /\ PLog(run, pre \o <<Info("build", "Building and pushing container image")>>)
              /\ ops' = Append(ops2, "build")
              /\ pc' = "build"
              /\ UNCHANGED <<imageUri, result, rejected>>
         ELSE AfterBuild(pre \o <<Info("build", "Building application image (simulated)"),
                                  IF input.registry
                                  THEN Info("build", "Image build completed (simulated)")
                                  ELSE Entry("build", "warn",
                                             <<"No registry URL configured, skipping image build">>)>>,
                         IF input.registry THEN Some(<<"registry", "runId">>) ELSE None,
                         Append(ops2, "build_simulated"))
    ELSE AfterBuild(pre, None, ops2)

Preferred_main == "main"

\* this.request.branch || "main"
Preferred == IF input.branch = "none" THEN "main" ELSE input.branch

GitMessage(branch) == <<"Command failed", "git clone", branch>>

\* startRun, processDeployment and execute up to the first await: the record
\* is created and set running, the description is parsed
StartRun ==
    /\ pc = "idle"
    /\ LET r0  == [id |-> RecordId, status |-> "running", logs |-> << >>, error |-> None,
                   service_url |-> None]
           es0 == <<Info("pipeline", "Starting deployment pipeline"),
                    Info("parse", "Parsing deployment description")>>
       IN IF input.descOk
          THEN \E ds \in PipelineSpecs :
                  /\ deploySpec' = Some(ds)
                  /\ PLog(r0, es0 \o <<Info("parse", "Generated DeploySpec"),
                                       Info("clone", "Cloning repository")>>)
                  /\ ops' = <<"parse", "clone">>
                  /\ pc' = "clone_mkdir"
                  /\ UNCHANGED <<fails, result, rejected>>
          ELSE /\ Fail(r0, "parse", <<"Cannot read properties of undefined (reading 'toLowerCase')">>,
                       es0, << >>, <<"parse">>)
               /\ UNCHANGED deploySpec
    /\ UNCHANGED <<runnerVars, input, genVars, lockVars, errors, repoFacts, plan, defaultBranch, clones, imageUri>>

\* cloneRepository: fs.ensureDir(repoPath)
CloneEnsureDir ==
    /\ pc = "clone_mkdir"
    /\ \E o \in {"ok", "fail"} :
          IF o = "ok"
          THEN /\ pc' = "clone_1"
               /\ UNCHANGED <<logs, run, ops, fails, result, rejected>>
          ELSE Fail(run, "clone", <<"EACCES: permission denied, mkdir">>, << >>, << >>, ops)
    /\ UNCHANGED <<runnerVars, input, genVars, lockVars, errors, deploySpec, repoFacts, plan, defaultBranch, clones, imageUri>>

\* cloneRepository, first attempt: git clone --branch <preferredBranch>
CloneFirst ==
    /\ pc = "clone_1"
    /\ \E o \in {"ok", "fail"} :
          /\ clones' = Append(clones, [cmd |-> "clone", branch |-> Preferred, out |-> o])
          /\ IF o = "ok"
             THEN /\ PLog(run, <<Entry("clone", "info", <<"Repository cloned successfully", Preferred>>)>>)
                  /\ pc' = "analyze"
             ELSE /\ PLog(run, <<Entry("clone", "warn",
                                       <<"Clone with branch failed, detecting default branch...", Preferred>>)>>)
                  /\ pc' = "clone_ls"
    /\ UNCHANGED <<runnerVars, input, genVars, lockVars, errors, deploySpec, repoFacts, plan, defaultBranch, imageUri,
                   ops, fails, result, rejected>>

\* cloneRepository: git ls-remote --symref <repo> HEAD
CloneDetect ==
    /\ pc = "clone_ls"
    /\ \E o \in {"fail"} \cup LsRemoteOutputs :
          LET b == IF o \in {"fail", "nomatch"} THEN "master" ELSE o
          IN /\ clones' = Append(clones, [cmd |-> "ls-remote", branch |-> "HEAD", out |-> o])
             /\ defaultBranch' = b
             /\ PLog(run, <<IF o = "fail"
                            THEN Entry("clone", "warn", <<"Failed to detect default branch, falling back to", b>>)
                            ELSE Entry("clone", "info", <<"Detected default branch", b>>)>>)
             /\ pc' = "clone_2"
    /\ UNCHANGED <<runnerVars, input, genVars, lockVars, errors, deploySpec, repoFacts, plan, imageUri,
                   ops, fails, result, rejected>>

\* cloneRepository, second attempt: git clone --branch <defaultBranch>
CloneSecond ==
    /\ pc = "clone_2"
    /\ \E o \in {"ok", "fail"} :
          /\ clones' = Append(clones, [cmd |-> "clone", branch |-> defaultBranch, out |-> o])
          /\ IF o = "ok"
             THEN /\ PLog(run, <<Entry("clone", "info", <<"Repository cloned successfully", defaultBranch>>)>>)
                  /\ pc' = "analyze"
             ELSE /\ PLog(run, <<Entry("clone", "warn",
                                       <<"Clone with default branch failed, trying HEAD without branch...",
                                         defaultBranch>>)>>)
                  /\ pc' = "clone_3"
    /\ UNCHANGED <<runnerVars, input, genVars, lockVars, errors, deploySpec, repoFacts, plan, defaultBranch, imageUri,
                   ops, fails, result, rejected>>

\* cloneRepository, final fallback: git clone without --branch; its failure
\* is not caught in cloneRepository
CloneThird ==
    /\ pc = "clone_3"
    /\ \E o \in {"ok", "fail"} :
          /\ clones' = Append(clones, [cmd |-> "clone", branch |-> "none", out |-> o])
          /\ IF o = "ok"
             THEN /\ PLog(run, <<Info("clone", "Repository cloned successfully (default HEAD)")>>)
                  /\ pc' = "analyze"
                  /\ UNCHANGED <<ops, fails, result, rejected>>
             ELSE Fail(run, "clone", GitMessage("none"), << >>, << >>, ops)
    /\ UNCHANGED <<runnerVars, input, genVars, lockVars, errors, deploySpec, repoFacts, plan, defaultBranch, imageUri>>

\* execute, step 2: analyzeRepo(repoPath)
Analyze ==
    /\ pc = "analyze"
    /\ \E o \in {"ok", "fail"} :
          IF o = "ok"
          THEN \E f \in PipelineFacts :
                  /\ repoFacts' = Some(f)
                  /\ PLog(run, <<Info("analyze", "Analyzing repository structure"),
                                 Info("analyze", "Generated RepoFacts")>>)
                  /\ ops' = Append(ops, "analyze")
                  /\ pc' = "plan"
                  /\ UNCHANGED <<fails, result, rejected>>
          ELSE /\ Fail(run, "analyze", <<"Unexpected end of JSON input">>,
                       <<Info("analyze", "Analyzing repository structure")>>, << >>,
                       Append(ops, "analyze"))
               /\ UNCHANGED repoFacts
    /\ UNCHANGED <<runnerVars, input, genVars, lockVars, errors, deploySpec, plan, defaultBranch, clones, imageUri>>

\* execute, step 3 and the call of generateIaC: createPlan, validatePlan
PlanStage ==
    /\ pc = "plan"
    /\ LET p    == createPlan(deploySpec[1], repoFacts[1])
           errs == validatePlan(p, deploySpec[1], repoFacts[1])
       IN /\ plan' = Some(p)
          /\ IF Len(errs) > 0
             THEN Fail(run, "plan", <<"Plan validation failed">> \o errs,
                       <<Info("plan", "Creating deployment plan")>>, << >>, Append(ops, "plan"))
             ELSE /\ PLog(run, <<Info("plan", "Creating deployment plan"),
                                 Info("plan", "Generated deployment plan"),
                                 Info("iac_generate", "Generating Terraform configuration")>>)
                  /\ ops' = ops \o <<"plan", "iac_generate">>
                  /\ pc' = "iac_generate"
                  /\ UNCHANGED <<fails, result, rejected>>
    /\ UNCHANGED <<runnerVars, input, genVars, lockVars, errors, deploySpec, repoFacts, defaultBranch, clones, imageUri>>

\* the guard of the pre-build variable patch
PreBuildPatchApplies(p, facts) ==
    /\ p.runtime = "apprunner"
    /\ Len(facts.apps) > 0
    /\ facts.apps[1].framework = "flask"

\* execute, step 4: generateIaC returns or throws
Generate ==
    /\ pc = "iac_generate"
    /\ \E o \in {"ok", "fail"} :
          IF o = "ok"
          THEN LET done == <<Info("iac_generate", "Generated Terraform files")>>
               IN /\ IF PreBuildPatchApplies(plan[1], repoFacts[1])
                     THEN /\ PLog(run, done)
                          /\ ops' = Append(ops, "prebuild_patch")
                          /\ pc' = "prebuild_patch"
                          /\ UNCHANGED <<imageUri, result, rejected>>
                     ELSE AfterPatch(done, ops)
                  /\ UNCHANGED fails
          ELSE /\ Fail(run, "iac_generate", <<"ENOENT: no such file or directory">>,
                       << >>, << >>, ops)
               /\ UNCHANGED imageUri
    /\ UNCHANGED <<runnerVars, input, genVars, lockVars, errors, deploySpec, repoFacts, plan, defaultBranch, clones>>

\* execute, the try block after step 4: the variables file is read, patched
\* and written back; a failure is caught and logged at warn level
PreBuildPatch ==
    /\ pc = "prebuild_patch"
    /\ \E o \in {"ok", "fail"} :
          IF o = "ok"
          THEN /\ AfterPatch(<<Info("iac_generate", "Adjusted Flask settings")>>, ops)
               /\ UNCHANGED fails
          ELSE LET msg == <<"EIO: i/o error, read">>
               IN /\ AfterPatch(<<Entry("iac_generate", "warn",
                                        <<"Failed to adjust health_check_path">> \o msg)>>, ops)
                  /\ fails' = Swallowed("prebuild_patch", msg)
    /\ UNCHANGED <<runnerVars, input, genVars, lockVars, errors, deploySpec, repoFacts, plan, defaultBranch, clones>>

\* execute, step 5, real build: buildApplication returns its BuildResult
Build ==
    /\ pc = "build"
    /\ \E o \in {"ok", "fail"} :
          IF o = "ok"
          THEN /\ AfterBuild(<<Info("build", "Image build and push completed")>>,
                             Some(<<"registry", "latest">>), ops)
               /\ UNCHANGED fails
          ELSE LET msg == <<"Image build/push failed", "docker build exited with 1">>
               IN /\ Fail(run, "build", msg, << >>,
                          <<Entry("build", "error", <<"Build step failed">> \o msg)>>, ops)
                  /\ UNCHANGED imageUri
    /\ UNCHANGED <<runnerVars, input, genVars, lockVars, errors, deploySpec, repoFacts, plan, defaultBranch, clones>>

\* execute, step 6, real deployment: the variables file is patched (a failure
\* is caught and logged at warn level), then runTerraform is called
PreDeployPatch ==
    /\ pc = "predeploy_patch"
    /\ \E o \in {"ok", "fail"} :
          IF o = "ok"
          THEN /\ PLog(run, <<Info("deploy", "Updated terraform.tfvars.json with runtime values")>>)
               /\ UNCHANGED fails
          ELSE LET msg == <<"EIO: i/o error, write">>
               IN /\ PLog(run, <<Entry("deploy", "warn",
                                       <<"Failed to update tfvars prior to Terraform">> \o msg)>>)
                  /\ fails' = Swallowed("predeploy_patch", msg)
    /\ ops' = Append(ops, "deploy")
    /\ pc' = "terraform"
    /\ tpc' = "init"
    /\ UNCHANGED <<cmds, tlogs, tfplan, planSite, planInv, planRets, lockId, applyErr, recErrs,
                   tfResult, input, genVars, lockVars, errors, deploySpec, repoFacts, plan, defaultBranch, clones, imageUri,
                   result, rejected>>

DerivedUrl_cdnFirst(outs) ==
    IF "cdn_url" \in DOMAIN outs /\ outs["cdn_url"] # << >>
    THEN Some(outs["cdn_url"])
    ELSE IF "service_url" \in DOMAIN outs /\ outs["service_url"] # << >>
         THEN Some(outs["service_url"])
         ELSE None

\* the service URL execute derives from the Terraform outputs: a key counts
\* when its value is truthy (`tfOutputs.service_url?.value`)
DerivedUrl(outs) ==
    IF "service_url" \in DOMAIN outs /\ outs["service_url"] # << >>
    THEN Some(outs["service_url"])
    ELSE IF "cdn_url" \in DOMAIN outs /\ outs["cdn_url"] # << >>
         THEN Some(outs["cdn_url"])
         ELSE None

\* execute, step 6 after runTerraform has returned
DeployFinish ==
    /\ pc = "terraform"
    /\ tpc = "done"
    /\ LET tr == tfResult[1]
       IN IF ~tr.success
          THEN Fail(run, "deploy", <<"Terraform deployment failed">> \o tr.error[1],
                    << >>, << >>, ops)
          ELSE LET url == DerivedUrl(tr.outputs[1])
               IN /\ Succeed(<<Info("deploy", "Infrastructure deployment completed")>>
                             \o (IF url = None
                                 THEN <<Entry("deploy", "warn",
                                              <<"No service URL found in Terraform outputs">>)>>
                                 ELSE << >>),
                             url, ops)
                  /\ UNCHANGED fails
    /\ UNCHANGED <<runnerVars, input, genVars, lockVars, errors, deploySpec, repoFacts, plan, defaultBranch, clones, imageUri>>

StatusOf_success(res) == "success"

\* processDeployment: the status a returned PipelineResult gives the record
StatusOf(res) == IF res.success THEN "success" ELSE "failed"

StoredLogs_streamed(res, streamed) == streamed

\* processDeployment: `run.logs = result.logs` replaces the streamed list
StoredLogs(res, streamed) == res.logs

\* processDeployment after `await deployApplication(...)`
ProcessResult ==
    /\ pc = "returned"
    /\ IF rejected
       THEN run' = [run EXCEPT !.status = "failed", !.error = Some(fails[Len(fails)].msg)]
       ELSE LET res == result[1]
            IN run' = [run EXCEPT !.status = StatusOf(res),
                                  !.service_url = IF res.success THEN res.serviceUrl ELSE @,
                                  !.error = IF res.success THEN @ ELSE res.error,
                                  !.logs = StoredLogs(res, @)]
    /\ pc' = "finished"
    /\ UNCHANGED <<runnerVars, logs, input, genVars, lockVars, errors, deploySpec, repoFacts, plan, defaultBranch, clones,
                   imageUri, ops, fails, result, rejected>>

PipeNext ==
    \/ StartRun
    \/ CloneEnsureDir
    \/ CloneFirst
    \/ CloneDetect
    \/ CloneSecond
    \/ CloneThird
    \/ Analyze
    \/ PlanStage
    \/ Generate
    \/ PreBuildPatch
    \/ Build
    \/ PreDeployPatch
    \/ DeployFinish
    \/ ProcessResult

\* the requests and environments of one run
Inputs == [descOk : BOOLEAN, branch : {"none", "dev"}, useReal : BOOLEAN, registry : BOOLEAN,
           sink : {"ok"}, outputs : {"stack"}, uuids : {<<"u1", "u2">>},
           tfEnv : {NoTfEnv}]

\* deployApplication called with a log sink of the caller's, which may throw
\* on every entry
SinkInputs == [descOk : BOOLEAN, branch : {"none"}, useReal : BOOLEAN, registry : BOOLEAN,
               sink : {"ok", "throws"}, outputs : {"stack"}, uuids : {<<"u1", "u2">>},
           tfEnv : {NoTfEnv}]

\* real-mode runs in a working directory whose outputs are of any kind
UrlInputs == [descOk : {TRUE}, branch : {"none"}, useReal : {TRUE}, registry : BOOLEAN,
              sink : {"ok"}, outputs : {"any"}, uuids : {<<"u1", "u2">>},
           tfEnv : {NoTfEnv}]

\* no run started: the runs map is empty and the request is one of `ins`
InitWith(ins) ==
    /\ tpc = "idle"
    /\ cmds = << >>
    /\ tlogs = << >>
    /\ tfplan = FALSE
    /\ planSite = "none"
    /\ planInv = 0
    /\ planRets = << >>
    /\ lockId = NoId
    /\ applyErr = "ok"
    /\ recErrs = << >>
    /\ tfResult = None
    /\ pc = "idle"
    /\ logs = << >>
    /\ run = [id |-> "none", status |-> "none", logs |-> << >>, error |-> None, service_url |-> None]
    /\ input \in ins
    /\ deploySpec = None
    /\ repoFacts = None
    /\ plan = None
    /\ defaultBranch = "master"
    /\ clones = << >>
    /\ imageUri = None
    /\ ops = << >>
    /\ fails = << >>
    /\ result = None
    /\ rejected = FALSE
    /\ errors = None
    /\ GenIdle
    /\ LockIdle

Init == InitWith(Inputs)

SinkInit == InitWith(SinkInputs)

UrlInit == InitWith(UrlInputs)

Next == PipeNext \/ RunnerNext

Spec == Init /\ [][Next]_vars

\* every enabled step of a run is eventually taken: each is the continuation
\* of a promise the event loop resolves
FairSpec == Spec /\ WF_vars(Next)

\* runs over every pair of values the two uuidv4() calls may return
IdInputs == [descOk : BOOLEAN, branch : {"none"}, useReal : BOOLEAN, registry : {TRUE},
             sink : {"ok"}, outputs : {"stack"}, uuids : {"u1", "u2"} \X {"u1", "u2"},
             tfEnv : {NoTfEnv}]

IdInit == InitWith(IdInputs)

SpecIds == IdInit /\ [][Next]_vars

\* real deployments whose terraform outputs are those the generated
\* outputs.tf declares
DeployInputs == [descOk : {TRUE}, branch : {"none"}, useReal : {TRUE}, registry : BOOLEAN,
                 sink : {"ok"}, outputs : {"plan"}, uuids : {<<"u1", "u2">>},
           tfEnv : {NoTfEnv}]

DeployInit == InitWith(DeployInputs)

SpecDeploy == DeployInit /\ [][Next]_vars

\* the pipeline driven with a log sink that may throw
SpecSink == SinkInit /\ [][Next]_vars

\* real deployments over every kind of terraform outputs
SpecUrl == UrlInit /\ [][Next]_vars

(***************************************************************************)
(* Claims about the pipeline (checked under Spec and FairSpec)             *)
(***************************************************************************)
PatchStages == {"prebuild_patch", "predeploy_patch"}
Ended == pc \in {"returned", "finished"}
\* the text of a log message after its fixed prefix
Detail(e) == SubSeq(e.message, 2, Len(e.message))
StepIdx(step) == {j \in 1..Len(logs) : logs[j].step = step}
CloneAttempts == SelectSeq(clones, LAMBDA c : c.cmd = "clone")
Detections == SelectSeq(clones, LAMBDA c : c.cmd = "ls-remote")

\* C4 as stated: every stage failure, the two variable patches included, is
\* logged at error level with the triggering message, and no stage starts
\* after it.
C4_Original ==
    \A i \in 1..Len(fails) :
       /\ \E j \in 1..Len(logs) :
             logs[j].level = "error" /\ Detail(logs[j]) = fails[i].msg
       /\ Len(ops) = fails[i].at

\* C4 (amended): a failure of parse, clone, analyze, plan, iac_generate, build
\* or deploy ends the run: the log ends with an error-level 'pipeline' entry
\* carrying the triggering message, no stage starts and no terraform command
\* runs afterwards, and after a builder failure no terraform command has run
\* at all.  A failure of a variable patch is logged at warn level under the
\* patching step, with its message, and is never logged at error level.
C4_FailFast ==
    \A i \in 1..Len(fails) :
       LET f == fails[i]
           n == Len(f.before)
       IN IF f.stage \in PatchStages
          THEN /\ Len(logs) > n
               /\ logs[n + 1].level = "warn"
               /\ logs[n + 1].step = (IF f.stage = "prebuild_patch" THEN "iac_generate" ELSE "deploy")
               /\ Detail(logs[n + 1]) = f.msg
               /\ \A j \in 1..Len(logs) : logs[j].level = "error" => Detail(logs[j]) # f.msg
          ELSE /\ i = Len(fails)
               /\ Ended
               /\ SubSeq(logs, 1, n) = f.before
               /\ logs[Len(logs)] = Entry("pipeline", "error", <<"Deployment pipeline failed">> \o f.msg)
               /\ Len(ops) = f.at
               /\ Len(cmds) = f.ncmds
               /\ f.stage = "build" => cmds = << >> /\ tpc = "idle"

\* C4 witness: a run whose pre-build patch failed, went on to the build, and
\* was then ended by a builder failure
C4_Witness ==
    /\ pc = "finished"
    /\ Len(fails) = 2
    /\ fails[1].stage = "prebuild_patch"
    /\ fails[2].stage = "build"
    /\ Len(ops) > fails[1].at

\* C5 as stated: execute never rejects; a failure in any stage gives a failed
\* result whose logs are the entries logged before the failure followed by
\* one error-level 'pipeline' entry; success only when no stage failed.
C5_Original ==
    /\ ~rejected
    /\ result # None =>
          LET res == result[1]
          IN IF res.success
             THEN fails = << >> /\ res.error = None
             ELSE /\ fails # << >>
                  /\ res.error = Some(fails[Len(fails)].msg)
                  /\ res.logs = fails[Len(fails)].before
                                \o <<Entry("pipeline", "error",
                                           <<"Deployment pipeline failed">> \o fails[Len(fails)].msg)>>

\* C5 (amended): execute never rejects and a run that ended has a result.  A
\* failed result stems from a failure of a stage other than the two variable
\* patches: its error is that failure's non-empty message, its service URL is
\* unset, and its logs are the entries logged before the failure, then (for
\* the build stage only) one error-level 'build' entry, then exactly one
\* error-level 'pipeline' entry.  A successful result has no error and only
\* variable-patch failures, if any, behind it.
C5_NeverThrows ==
    /\ ~rejected
    /\ Ended => result # None
    /\ result # None =>
          LET res == result[1]
          IN IF res.success
             THEN /\ res.error = None
                  /\ \A i \in 1..Len(fails) : fails[i].stage \in PatchStages
             ELSE /\ fails # << >>
                  /\ LET f == fails[Len(fails)]
                     IN /\ f.stage \notin PatchStages
                        /\ Len(f.msg) > 0
                        /\ res.error = Some(f.msg)
                        /\ res.serviceUrl = None
                        /\ res.logs = f.before
                              \o (IF f.stage = "build"
                                  THEN <<Entry("build", "error", <<"Build step failed">> \o f.msg)>>
                                  ELSE << >>)
                              \o <<Entry("pipeline", "error", <<"Deployment pipeline failed">> \o f.msg)>>
                        /\ Cardinality({j \in 1..Len(res.logs) :
                                           res.logs[j].step = "pipeline" /\ res.logs[j].level = "error"}) = 1

\* C5 witness: a failed result of the deploy stage, returned after the
\* pre-deploy patch of that run had failed too
C5_Witness ==
    /\ result # None
    /\ ~result[1].success
    /\ Len(fails) = 2
    /\ fails[1].stage = "predeploy_patch"
    /\ fails[2].stage = "deploy"

C8_Original ==
    /\ Len(CloneAttempts) <= 3
    /\ \A k \in 1..(Len(CloneAttempts) - 1) : CloneAttempts[k].out = "fail"
    /\ Len(clones) > 0 => Len(SelectSeq(logs, LAMBDA e : e.step = "clone")) = 1 + Len(clones)
    /\ \A i \in 1..Len(fails) :
          fails[i].stage = "clone" =>
             Len(CloneAttempts) = 3 /\ \A k \in 1..3 : CloneAttempts[k].out = "fail"

\* C8 (amended): cloneRepository runs at most the commands clone, ls-remote,
\* clone, clone in this order; the attempts name the requested branch (or
\* 'main'), then the detected default branch (or 'master' when detection
\* fails or finds no branch), then no branch; an attempt is made only after
\* the previous one failed and none is made after a success; every command's
\* outcome has its own entry under step 'clone' (warn for a failure, info
\* otherwise) except a failure of the third attempt, which is logged only by
\* the error-level 'pipeline' entry; the clone stage fails when all three
\* attempts failed or when the directory could not be created, before any
\* attempt.
C8_CloneFallback ==
    LET A  == CloneAttempts
        D  == Detections
        CL == SelectSeq(logs, LAMBDA e : e.step = "clone")
        thirdFailed == Len(A) = 3 /\ A[3].out = "fail"
    IN /\ Len(A) <= 3
       /\ Len(D) <= 1
       /\ \A i \in 1..Len(clones) : clones[i].cmd = (IF i = 2 THEN "ls-remote" ELSE "clone")
       /\ Len(A) >= 1 => A[1].branch = (IF input.branch = "none" THEN "main" ELSE input.branch)
       /\ Len(A) >= 2 => A[2].branch = (IF D[1].out \in {"fail", "nomatch"} THEN "master" ELSE D[1].out)
       /\ Len(A) = 3 => A[3].branch = "none"
       /\ \A k \in 1..(Len(A) - 1) : A[k].out = "fail"
       /\ (Len(A) >= 1 /\ A[Len(A)].out = "ok") => pc \notin {"clone_1", "clone_ls", "clone_2", "clone_3"}
       /\ Len(clones) > 0 => Len(CL) = Len(clones) + (IF thirdFailed THEN 0 ELSE 1)
       /\ \A i \in 1..Len(clones) :
             i + 1 <= Len(CL) => CL[i + 1].level = (IF clones[i].out = "fail" THEN "warn" ELSE "info")
       /\ thirdFailed =>
             /\ logs[Len(logs)] = Entry("pipeline", "error",
                                        <<"Deployment pipeline failed", "Command failed", "git clone", "none">>)
             /\ \E i \in 1..Len(fails) : fails[i].stage = "clone"
       /\ \A i \in 1..Len(fails) :
             fails[i].stage = "clone" => thirdFailed \/ clones = << >>

\* C8 witness: a finished run whose three attempts all failed, the second
\* naming the branch the remote reported
C8_Witness ==
    /\ pc = "finished"
    /\ Len(CloneAttempts) = 3
    /\ CloneAttempts[2].branch = "trunk"
    /\ CloneAttempts[3].out = "fail"

StageOrder == <<"parse", "clone", "analyze", "plan", "iac_generate", "build", "deploy">>

\* C10: in the log of a run every entry of a stage precedes every entry of a
\* later stage, a stage has entries only if all earlier stages (but for the
\* conditional build) have, a run that reached deploy has build entries
\* exactly when the runtime is not s3_cloudfront, and the log of a run that
\* ended begins and ends with a 'pipeline' entry.
C10_StageOrder ==
    /\ \A a, b \in 1..Len(StageOrder) :
          (a < b /\ StepIdx(StageOrder[b]) # {}) =>
             /\ StageOrder[a] # "build" => StepIdx(StageOrder[a]) # {}
             /\ \A i \in StepIdx(StageOrder[a]), j \in StepIdx(StageOrder[b]) : i < j
    /\ StepIdx("deploy") # {} => (StepIdx("build") # {} <=> plan[1].runtime # "s3_cloudfront")
    /\ Ended => logs[1].step = "pipeline" /\ logs[Len(logs)].step = "pipeline"
    /\ pc = "finished" =>
          run.logs[1].step = "pipeline" /\ run.logs[Len(run.logs)].step = "pipeline"

\* C10 witness: a successful run that built an image and ran terraform
C10_Witness ==
    /\ pc = "finished"
    /\ result[1].success
    /\ StepIdx("build") # {}
    /\ StepIdx("terraform") # {}
    /\ StepIdx("deploy") # {}

\* a is a prefix of b
IsPrefix(a, b) == Len(a) <= Len(b) /\ SubSeq(b, 1, Len(a)) = a

\* C11: in a run whose log sink throws on every entry, every entry stays in
\* the pipeline's own list (the list only grows), execute never rejects, and
\* the result obeys the same law as with a working sink: it is the list
\* itself, it fails exactly for a failure of a stage other than a variable
\* patch, with that failure's message, and the stages are logged in order;
\* the finished record carries the result's status and logs.
C11_SinkFailure ==
    /\ [][input.sink = "throws" => IsPrefix(logs, logs')]_vars
    /\ [](input.sink = "throws" =>
            /\ C5_NeverThrows
            /\ C10_StageOrder
            /\ result # None => result[1].logs = logs
            /\ Ended => logs[Len(logs)].step = "pipeline"
            /\ pc = "finished" =>
                  /\ run.logs = logs
                  /\ run.status = (IF result[1].success THEN "success" ELSE "failed"))

\* C11 witness: a run with a throwing sink that went through terraform and
\* ended in success, the sink having kept nothing until the result came
C11_Witness ==
    /\ input.sink = "throws"
    /\ pc = "returned"
    /\ result[1].success
    /\ Len(cmds) > 0
    /\ run.logs = << >>
    /\ Len(logs) > 0

\* the outputs of the run's successful terraform deployment
TfOuts == tfResult[1].outputs[1]
RealSuccess == Ended /\ tfResult # None /\ tfResult[1].success
NoUrlWarning == Entry("deploy", "warn", <<"No service URL found in Terraform outputs">>)
Logged(e) == \E j \in 1..Len(logs) : logs[j] = e

getRunLogs(r, step) ==
    IF step = None THEN r.logs
    ELSE SelectSeq(r.logs, LAMBDA e : e.step = step[1])

LogSteps == {"pipeline", "parse", "clone", "analyze", "plan", "iac_generate", "build",
             "deploy", "terraform"} \cup PatchStages

\* C13: what getRunLogs returns before a step of the program is a prefix of
\* what it returns after it, for the whole list and for every step filter,
\* also when the result's list replaces the streamed list; by transitivity
\* any earlier read is a prefix of any later one.
C13_AppendOnly ==
    [][\A step \in {None} \cup {Some(s) : s \in LogSteps} :
          IsPrefix(getRunLogs(run, step), getRunLogs(run', step))]_vars

\* C13 witness: the result's list has replaced a non-empty streamed list that
\* readers could see while the run was going on
C13_Witness ==
    /\ pc = "finished"
    /\ input.sink = "ok"
    /\ ~rejected
    /\ run.logs = result[1].logs
    /\ Len(getRunLogs(run, Some("terraform"))) > 0
    /\ Len(getRunLogs(run, None)) > Len(getRunLogs(run, Some("terraform")))

(***************************************************************************)
(* The planner called on its own                                           *)
(***************************************************************************)
MaxApps == 2

Roles == {"web", "api", "worker", "cron"}

\* RepoApp values: a plain static site, a front-end build with or without a
\* start command, and a server
PlannerApps ==
    {[role |-> r, language |-> k[1], framework |-> k[2], start_cmd |-> k[3],
      needs_db |-> d, ports |-> << >>] :
        r \in Roles, d \in BOOLEAN,
        k \in {<<"static", "static", "null">>,
               <<"javascript", "react-vite", "null">>,
               <<"javascript", "create-react-app", "null">>,
               <<"javascript", "react-vite", "vite preview">>,
               <<"python", "flask", "gunicorn">>}}

\* RepoFacts values: the monorepo flag is a field of its own
PlannerFacts ==
    {[apps |-> a, monorepo |-> m] :
        a \in UNION {[1..n -> PlannerApps] : n \in 0..MaxApps}, m \in BOOLEAN}

PlannerSpecs ==
    [app_name : {"autoapp"}, region : {"us-east-2"}, cost : {"low", "standard", "high"},
     perf : {"low", "standard", "high"}, db : {"null", "postgres", "mysql"},
     domain : {"null", "example.com"}]

\* Plan values a caller may hand to validatePlan
PlannerPlans ==
    [runtime : {"apprunner", "ecs_fargate", "s3_cloudfront", "ec2"},
     db : {"null", "postgres", "mysql"}, front : {"null"}, host : {"null"}]

\* validatePlan reads data.db only
ValidateSpecs ==
    {ds \in PlannerSpecs : ds.cost = "standard" /\ ds.perf = "standard" /\ ds.domain = "null"}

PlannerInitWith(at, specs, plans) ==
    /\ tpc = "init"
    /\ cmds = << >>
    /\ tlogs = << >>
    /\ tfplan = FALSE
    /\ planSite = "none"
    /\ planInv = 0
    /\ planRets = << >>
    /\ lockId = NoId
    /\ applyErr = "ok"
    /\ recErrs = << >>
    /\ tfResult = None
    /\ pc = at
    /\ logs = << >>
    /\ run = [id |-> "none", status |-> "none", logs |-> << >>, error |-> None, service_url |-> None]
    /\ input = [descOk |-> TRUE, branch |-> "none", useReal |-> FALSE, registry |-> FALSE,
                sink |-> "ok", outputs |-> "stack", uuids |-> <<"u1", "u2">>,
                tfEnv |-> NoTfEnv]
    /\ deploySpec \in {Some(ds) : ds \in specs}
    /\ repoFacts \in {Some(f) : f \in PlannerFacts}
    /\ plan \in plans
    /\ defaultBranch = "master"
    /\ clones = << >>
    /\ imageUri = None
    /\ ops = << >>
    /\ fails = << >>
    /\ result = None
    /\ rejected = FALSE
    /\ errors = None
    /\ GenIdle
    /\ LockIdle

\* createPlan(deploySpec, repoFacts)
CreatePlan ==
    /\ pc = "createPlan"
    /\ plan' = Some(createPlan(deploySpec[1], repoFacts[1]))
    /\ pc' = "planned"
    /\ UNCHANGED <<runnerVars, logs, run, input, genVars, lockVars, deploySpec, repoFacts, defaultBranch, clones,
                   imageUri, ops, fails, result, rejected, errors>>

\* validatePlan(plan, deploySpec, repoFacts), on a given plan or on the plan
\* createPlan just returned (as execute calls it)
ValidatePlan ==
    /\ pc \in {"validatePlan", "planned"}
    /\ errors' = Some(validatePlan(plan[1], deploySpec[1], repoFacts[1]))
    /\ pc' = "validated"
    /\ UNCHANGED <<runnerVars, logs, run, input, genVars, lockVars, deploySpec, repoFacts, plan, defaultBranch,
                   clones, imageUri, ops, fails, result, rejected>>

PlannerInit == PlannerInitWith("createPlan", PlannerSpecs, {None})

ValidateInit ==
    PlannerInitWith("validatePlan", ValidateSpecs, {Some(p) : p \in PlannerPlans})

SpecPlanner == PlannerInit /\ [][CreatePlan]_vars

SpecValidate == ValidateInit /\ [][ValidatePlan]_vars

\* createPlan followed by validatePlan on its result
SpecPlanCheck == PlannerInit /\ [][CreatePlan \/ ValidatePlan]_vars

(***************************************************************************)
(* Claims about the planner                                                *)
(***************************************************************************)
Planned == pc = "planned"
Apps == repoFacts[1].apps
AllStatic == Len(Apps) > 0 /\ \A i \in 1..Len(Apps) : IsStatic(Apps[i])
NumHttp == Cardinality(HttpIdx(repoFacts[1]))
NumWorker == Cardinality(WorkerIdx(repoFacts[1]))

\* C14 as stated: every repository of at least one app whose apps are all
\* static gets the runtime s3_cloudfront, whatever the roles, the monorepo
\* flag and the hints.
C14_Original == (Planned /\ AllStatic) => plan[1].runtime = "s3_cloudfront"

\* C14 (amended): every repository of at least one app whose apps are all
\* static and none of which has the role worker or cron gets the runtime
\* s3_cloudfront, whatever the monorepo flag and the hints.
C14_StaticOnly ==
    (Planned /\ AllStatic /\ NumWorker = 0) => plan[1].runtime = "s3_cloudfront"

\* C14 witness: a monorepo of two static apps, planned under cost low and
\* perf high
C14_Witness ==
    /\ Planned /\ AllStatic /\ NumWorker = 0
    /\ Len(Apps) = 2 /\ repoFacts[1].monorepo
    /\ deploySpec[1].cost = "low" /\ deploySpec[1].perf = "high"
    /\ plan[1].runtime = "s3_cloudfront"

NumStatic == Cardinality(StaticIdx(repoFacts[1]))
Hints == deploySpec[1]
\* the plan createPlan returns for the same repository under other hints
PlanUnder(cost, perf) ==
    createPlan([deploySpec[1] EXCEPT !.cost = cost, !.perf = perf], repoFacts[1])

SingleHttp == NumHttp = 1 /\ NumWorker = 0

\* C15 as stated: exactly one http app, no background app and monorepo =
\* false give the runtime apprunner under any cost and perf hints.
C15_Original ==
    (Planned /\ SingleHttp /\ ~repoFacts[1].monorepo) => plan[1].runtime = "apprunner"

\* C15 (amended): exactly one http app, no background app and monorepo =
\* false give the runtime apprunner under any cost hint and any perf hint
\* other than high, and the runtime ecs_fargate under the perf hint high.
C15_SingleHttp ==
    (Planned /\ SingleHttp /\ ~repoFacts[1].monorepo) =>
       plan[1].runtime = IF Hints.perf = "high" THEN "ecs_fargate" ELSE "apprunner"

\* C15 witness: a static app beside the one http app, cost low, and the
\* runtime apprunner
C15_Witness ==
    /\ Planned /\ SingleHttp /\ ~repoFacts[1].monorepo
    /\ NumStatic = 1 /\ Hints.cost = "low" /\ Hints.perf = "low"
    /\ plan[1].runtime = "apprunner"

MixedMonorepo == repoFacts[1].monorepo /\ NumStatic > 0 /\ NumHttp > 0

\* C16 as stated: a monorepo with a static app and an http app gets front =
\* s3_cloudfront and runtime = ecs_fargate under any hints.
C16_Original ==
    (Planned /\ MixedMonorepo) =>
       plan[1].front = "s3_cloudfront" /\ plan[1].runtime = "ecs_fargate"

\* C16 (amended): a monorepo with a static app and an http app gets front =
\* s3_cloudfront under any hints; its runtime is ecs_fargate, except that it
\* is apprunner when the cost hint is low, the perf hint is not high, there
\* is exactly one http app and no app has the role worker or cron.
C16_MonorepoRouting ==
    (Planned /\ MixedMonorepo) =>
       /\ plan[1].front = "s3_cloudfront"
       /\ plan[1].runtime =
             IF Hints.cost = "low" /\ Hints.perf # "high" /\ SingleHttp
             THEN "apprunner" ELSE "ecs_fargate"

\* C16 witness: a monorepo of a static app and an http app planned under
\* cost low, served by apprunner behind a static front
C16_Witness ==
    /\ Planned /\ MixedMonorepo /\ Hints.cost = "low"
    /\ plan[1].front = "s3_cloudfront" /\ plan[1].runtime = "apprunner"

\* C17 as stated: under the cost hint low, exactly one http app and no
\* background app always give apprunner; any other number of http apps or a
\* background app give the runtime the other rules give without the hint.
C17_Original ==
    (Planned /\ Hints.cost = "low") =>
       IF SingleHttp THEN plan[1].runtime = "apprunner"
       ELSE plan[1].runtime = PlanUnder("standard", Hints.perf).runtime

\* C17 (amended): under the cost hint low, exactly one http app and no
\* background app give apprunner unless the perf hint is high, which gives
\* ecs_fargate; any other number of http apps or a background app give the
\* runtime the other rules give without the cost hint.
C17_CostDowngrade ==
    (Planned /\ Hints.cost = "low") =>
       IF SingleHttp
       THEN plan[1].runtime = IF Hints.perf = "high" THEN "ecs_fargate" ELSE "apprunner"
       ELSE plan[1].runtime = PlanUnder("standard", Hints.perf).runtime

\* C17 witness: a one-app monorepo, a cluster without the hint, is planned
\* on apprunner under cost low
C17_Witness ==
    /\ Planned /\ Hints.cost = "low" /\ SingleHttp
    /\ repoFacts[1].monorepo /\ NumStatic = 0
    /\ PlanUnder("standard", Hints.perf).runtime = "ecs_fargate"
    /\ plan[1].runtime = "apprunner"

\* C18: under the perf hint high createPlan never returns apprunner: a
\* runtime the other rules set to apprunner becomes ecs_fargate, with or
\* without a database, and any other runtime stays as those rules set it.
C18_PerfUpgrade ==
    (Planned /\ Hints.perf = "high") =>
       LET base == PlanUnder(Hints.cost, "standard").runtime
       IN /\ plan[1].runtime # "apprunner"
          /\ plan[1].runtime = IF base = "apprunner" THEN "ecs_fargate" ELSE base

\* C18 witness: one http app that needs no database, no database requested,
\* apprunner without the hint and ecs_fargate with it
C18_Witness ==
    /\ Planned /\ Hints.perf = "high"
    /\ ~AnyNeedsDb(repoFacts[1]) /\ Hints.db = "null"
    /\ PlanUnder(Hints.cost, "standard").runtime = "apprunner"
    /\ plan[1].runtime = "ecs_fargate"

\* C19: plan.db is non-null exactly when some app needs a database or the
\* DeploySpec requests one; it is then the requested kind, or postgres when
\* none is requested; one http app that needs a database, with no requested
\* kind and standard hints, gets apprunner with postgres.
C19_Database ==
    Planned =>
       /\ plan[1].db # "null" <=> (AnyNeedsDb(repoFacts[1]) \/ Hints.db # "null")
       /\ plan[1].db # "null" =>
             plan[1].db = IF Hints.db # "null" THEN Hints.db ELSE "postgres"
       /\ (/\ Len(Apps) = 1 /\ NumHttp = 1 /\ Apps[1].needs_db /\ ~repoFacts[1].monorepo
           /\ Hints.db = "null" /\ Hints.cost = "standard" /\ Hints.perf = "standard")
          => plan[1].runtime = "apprunner" /\ plan[1].db = "postgres"

\* C19 witness: the flask-like app that needs a database, planned without a
\* requested kind
C19_Witness ==
    /\ Planned /\ Len(Apps) = 1 /\ Apps[1].framework = "flask" /\ Apps[1].role = "web"
    /\ Apps[1].needs_db /\ ~repoFacts[1].monorepo
    /\ Hints.db = "null" /\ Hints.cost = "standard" /\ Hints.perf = "standard"
    /\ plan[1] = [runtime |-> "apprunner", db |-> "postgres", front |-> "null",
                  host |-> Hints.domain]

Validated == pc = "validated"
StaticWithHttp == plan[1].runtime = "s3_cloudfront" /\ NumHttp > 0
AppRunnerMultiHttp == plan[1].runtime = "apprunner" /\ NumHttp > 1
UnneededDb == plan[1].db # "null" /\ ~AnyNeedsDb(repoFacts[1]) /\ deploySpec[1].db = "null"
Messages == {errors[1][i] : i \in 1..Len(errors[1])}

\* C20: the list validatePlan returns is non-empty exactly when a rule is
\* violated (s3_cloudfront with an http app, apprunner with more than one
\* http app, a database nobody needs or requests); it holds one message per
\* violated rule, each rule its own, and nothing else.
C20_Validation ==
    Validated =>
       /\ Len(errors[1]) > 0 <=> (StaticWithHttp \/ AppRunnerMultiHttp \/ UnneededDb)
       /\ StaticWithHttp <=>
             "Cannot use S3+CloudFront runtime with HTTP services" \in Messages
       /\ AppRunnerMultiHttp <=>
             "App Runner cannot handle multiple HTTP services" \in Messages
       /\ UnneededDb <=> "Database specified but no apps require database" \in Messages
       /\ Len(errors[1]) = Cardinality({r \in {<<1, StaticWithHttp>>, <<2, AppRunnerMultiHttp>>,
                                                <<3, UnneededDb>>} : r[2]})
       /\ Cardinality(Messages) = Len(errors[1])

\* C20 witness: an apprunner plan with a database for two http apps that need
\* none violates two rules and draws two messages
C20_Witness ==
    /\ Validated /\ AppRunnerMultiHttp /\ UnneededDb
    /\ Len(errors[1]) = 2

(***************************************************************************)
(* The IaC generator                                                       *)
(***************************************************************************)
\* the stacks generateMainTf has a branch for
MainTfStacks == {"ecr", "apprunner_service", "ecs_fargate_service",
                 "cloudfront_s3_static_site", "rds_postgres", "dynamodb_sample"}

EnvVarsExpr_plain(stks) == <<"var.env_vars", "AWS_REGION = var.aws_region">>

\* the env_vars expression of the ecs_fargate_service module block
EnvVarsExpr(stks) ==
    IF Includes(stks, "rds_postgres")
    THEN <<"var.env_vars", "POSTGRES_URL = module.rds_postgres.database_url",
           "AWS_REGION = var.aws_region">>
    ELSE <<"var.env_vars", "AWS_REGION = var.aws_region">>

\* the root variables (var.<name>) the module block of a stack refers to
BlockVars(s) ==
    CASE s = "ecr" -> {"app_name"}
      [] s = "apprunner_service" ->
            {"app_name", "image_uri", "app_port", "env_vars", "cpu", "memory",
             "health_check_path", "tags"}
      [] s = "ecs_fargate_service" ->
            {"aws_region", "app_name", "image_uri", "app_port", "health_check_path",
             "fargate_cpu", "fargate_memory", "desired_count", "env_vars", "tags"}
      [] s = "cloudfront_s3_static_site" -> {"app_name", "tags"}
      [] s = "rds_postgres" ->
            {"db_name", "db_username", "db_instance_class", "db_allocated_storage",
             "db_backup_retention", "db_skip_final_snapshot", "db_deletion_protection",
             "tags"}
      [] s = "dynamodb_sample" -> {"tags"}
      [] OTHER -> {}

\* one module block of main.tf: its name, its source, the root variables it
\* refers to and its env_vars argument (empty when the block has none)
ModuleBlock(s, stks) ==
    [module   |-> s,
     source   |-> <<"./modules", s>>,
     vars     |-> BlockVars(s),
     env_vars |-> IF s = "apprunner_service" THEN <<"var.env_vars">>
                  ELSE IF s = "ecs_fargate_service" THEN EnvVarsExpr(stks)
                  ELSE << >>]

generateMainTf_twice(stks) ==
    LET known == SelectSeq(stks, LAMBDA s : s \in MainTfStacks)
    IN [i \in 1..Len(known) |-> ModuleBlock(known[i], stks)]
       \o [i \in 1..Len(known) |-> ModuleBlock(known[i], stks)]

\* generateMainTf: the module blocks, one per stack the loop has a branch for
generateMainTf(stks) ==
    LET known == SelectSeq(stks, LAMBDA s : s \in MainTfStacks)
    IN [i \in 1..Len(known) |-> ModuleBlock(known[i], stks)]

\* `${registryUrl}:latest` of generateTfVars
LatestImage(spec, registry) ==
    IF registry THEN <<"registry.example/app", "latest">>
    ELSE <<"123456789012", "dkr.ecr", spec.region, "amazonaws.com", spec.app_name, "latest">>

\* generateTfVars: cpu and memory of an apprunner service
AppRunnerSize(perf) ==
    [cpu    |-> IF perf = "high" THEN "1 vCPU" ELSE "0.25 vCPU",
     memory |-> IF perf = "high" THEN "2 GB" ELSE "0.5 GB"]

\* the perf hint mapped to Fargate cpu units and memory
FargateSize(perf) ==
    IF perf = "high" THEN [cpu |-> "1024", memory |-> "2048"]
    ELSE IF perf = "standard" THEN [cpu |-> "512", memory |-> "1024"]
    ELSE [cpu |-> "256", memory |-> "512"]

\* deploySpec.app_name.replace(/-/g, "_")
Underscored(name) == IF name = "auto-app" THEN "auto_app" ELSE name

\* generateVariablesTf: the variables declared, each with or without a
\* default
generateVariablesTf(p) ==
    {[name |-> "aws_region", default |-> FALSE], [name |-> "app_name", default |-> FALSE],
     [name |-> "tags", default |-> TRUE]}
    \cup (IF p.runtime = "apprunner"
          THEN {[name |-> "env_vars", default |-> TRUE]}
               \cup {[name |-> n, default |-> FALSE] :
                        n \in {"image_uri", "app_port", "cpu", "memory", "health_check_path"}}
          ELSE {})
    \cup (IF p.runtime = "ecs_fargate"
          THEN {[name |-> "env_vars", default |-> TRUE]}
               \cup {[name |-> n, default |-> FALSE] :
                        n \in {"image_uri", "app_port", "fargate_cpu", "fargate_memory",
                               "desired_count", "health_check_path"}}
          ELSE {})
    \cup (IF Truthy(p.db)
          THEN {[name |-> n, default |-> FALSE] :
                  n \in {"db_name", "db_username", "db_instance_class",
                         "db_allocated_storage", "db_backup_retention",
                         "db_skip_final_snapshot", "db_deletion_protection"}}
          ELSE {})

\* generateTfVars: the variables of terraform.tfvars.json, by key
generateTfVars(spec, p, registry) ==
    [aws_region |-> spec.region, app_name |-> spec.app_name,
     tags |-> [Environment |-> "env", Application |-> spec.app_name,
               ManagedBy |-> "auto-deploy", CreatedAt |-> "now"]]
    @@ (IF p.runtime = "apprunner"
        THEN [image_uri |-> LatestImage(spec, registry), app_port |-> 8080,
              env_vars |-> [PORT |-> "8080"],
              cpu |-> AppRunnerSize(spec.perf).cpu, memory |-> AppRunnerSize(spec.perf).memory,
              health_check_path |-> "/"]
        ELSE << >>)
    @@ (IF p.runtime = "ecs_fargate"
        THEN [image_uri |-> LatestImage(spec, registry), app_port |-> 8080,
              env_vars |-> [PORT |-> "8080", AWS_DEFAULT_REGION |-> spec.region],
              fargate_cpu |-> FargateSize(spec.perf).cpu,
              fargate_memory |-> FargateSize(spec.perf).memory,
              desired_count |-> 1, health_check_path |-> "/"]
        ELSE << >>)
    @@ (IF Truthy(p.db)
        THEN [db_name |-> Underscored(spec.app_name), db_username |-> "postgres",
              db_instance_class |-> IF spec.cost = "low" THEN "db.t3.micro" ELSE "db.t3.small",
              db_allocated_storage |-> 20, db_backup_retention |-> 7,
              db_skip_final_snapshot |-> TRUE, db_deletion_protection |-> FALSE]
        ELSE << >>)

\* String(port) for the ports of the repositories considered
PortString(n) ==
    CASE n = 8080 -> "8080" [] n = 5000 -> "5000" [] n = 3000 -> "3000" [] OTHER -> "0"

PreBuildVars_cpu(v) ==
    [app_port |-> 8080, health_check_path |-> "/", cpu |-> "1 vCPU",
     env_vars |-> [PORT |-> "8080"] @@ (IF "env_vars" \in DOMAIN v THEN v["env_vars"] ELSE << >>)]
    @@ v
\* execute's pre-build patch of the variables file (Flask on apprunner)
PreBuildVars(v) ==
    [app_port |-> 8080, health_check_path |-> "/",
     env_vars |-> [PORT |-> "8080"] @@ (IF "env_vars" \in DOMAIN v THEN v["env_vars"] ELSE << >>)]
    @@ v

PreDeployVars_resize(v, p, spec, facts, img) ==
    IF p.runtime = "ecs_fargate"
    THEN [fargate_cpu |-> "256", fargate_memory |-> "512"] @@ v
    ELSE IF p.runtime = "apprunner"
         THEN [cpu |-> "0.25 vCPU", memory |-> "0.5 GB"] @@ v
         ELSE v

\* execute's pre-deploy patch of the variables file (real mode)
PreDeployVars(v, p, spec, facts, img) ==
    LET image == IF img # None THEN [image_uri |-> img[1]] ELSE << >>
        port  == IF Len(facts.apps) > 0 /\ Len(facts.apps[1].ports) > 0
                 THEN facts.apps[1].ports[1] ELSE 8080
        env   == IF "env_vars" \in DOMAIN v THEN v["env_vars"] ELSE << >>
        sized == /\ "fargate_cpu" \in DOMAIN v /\ v["fargate_cpu"] # ""
                 /\ "fargate_memory" \in DOMAIN v /\ v["fargate_memory"] # ""
    IN IF p.runtime = "ecs_fargate"
       THEN image
            @@ [app_port |-> port,
                env_vars |-> [PORT |-> PortString(port), AWS_DEFAULT_REGION |-> spec.region]
                             @@ env]
            @@ (IF sized THEN << >>
                ELSE [fargate_cpu |-> FargateSize(spec.perf).cpu,
                      fargate_memory |-> FargateSize(spec.perf).memory])
            @@ v
            @@ [health_check_path |-> "/", desired_count |-> 1]
       ELSE IF p.runtime = "apprunner" THEN image @@ v
       ELSE v

\* generateBackendTf: the arguments of the backend "s3" block
generateBackendTf(spec, env) ==
    [bucket |-> IF Truthy(env.bucket) THEN <<env.bucket>>
                ELSE <<spec.app_name, "-terraform-state">>,
     key |-> IF Truthy(env.key) THEN env.key ELSE "terraform.tfstate",
     region |-> spec.region,
     dynamodb_table |-> IF Truthy(env.table) THEN <<env.table>>
                        ELSE <<spec.app_name, "-terraform-locks">>]

\* the backend.tf of one generateIaC call, with the app it was written for
BackendFile(spec, env) == [app_name |-> spec.app_name, file |-> generateBackendTf(spec, env)]

\* ---- generateIaC, one action per file-system call -------------------------
GenFail(msg) ==
    /\ gpc' = "failed"
    /\ genErr' = Some(msg)

GenKeep == UNCHANGED <<runnerVars, logs, run, pc, input, deploySpec, repoFacts, plan,
                       defaultBranch, clones, imageUri, ops, fails, result, rejected, errors,
                       templates, lockVars>>

\* fs.ensureDir(workdir), then the stack selection
GenEnsureDir ==
    /\ gpc = "ensureDir"
    /\ \E o \in {"ok", "fail"} :
          IF o = "ok"
          THEN /\ disk' = disk \cup {<<"workdir">>}
               /\ stacks' = SelectStacks(plan[1])
               /\ gpc' = "copy"
               /\ UNCHANGED genErr
          ELSE /\ GenFail(<<"EACCES: permission denied, mkdir">>)
               /\ UNCHANGED <<disk, stacks>>
    /\ UNCHANGED <<mainTf, tfVars, backendTf>>
    /\ GenKeep

Copied == {i \in 1..Len(stacks) : <<"modules", stacks[i]>> \in disk}

\* fs.copy(srcDir, destDir) of the next stack; after the last one main.tf is
\* generated
GenCopy ==
    /\ gpc = "copy"
    /\ LET i == Cardinality(Copied) + 1
       IN IF stacks[i] \in templates
          THEN /\ disk' = disk \cup {<<"modules", stacks[i]>>}
               /\ gpc' = IF i = Len(stacks) THEN "main.tf" ELSE "copy"
               /\ UNCHANGED genErr
          ELSE /\ GenFail(<<"ENOENT: no such file or directory, lstat", stacks[i]>>)
               /\ UNCHANGED disk
    /\ UNCHANGED <<stacks, mainTf, tfVars, backendTf>>
    /\ GenKeep

\* fs.writeFile of main.tf, variables.tf, terraform.tfvars.json, backend.tf,
\* outputs.tf (when it declares an output) and README_RUN.md, in this order
GenWrite ==
    /\ gpc \in {"main.tf", "variables.tf", "terraform.tfvars.json", "backend.tf",
                "outputs.tf", "README_RUN.md"}
    /\ disk' = disk \cup {<<gpc>>}
    /\ mainTf' = IF gpc = "main.tf" THEN Some(generateMainTf(stacks)) ELSE mainTf
    /\ tfVars' = IF gpc = "terraform.tfvars.json"
                 THEN Some(generateTfVars(deploySpec[1], plan[1], input.registry))
                 ELSE tfVars
    /\ backendTf' = IF gpc = "backend.tf"
                    THEN Append(backendTf, BackendFile(deploySpec[1], input.tfEnv))
                    ELSE backendTf
    /\ gpc' = CASE gpc = "main.tf" -> "variables.tf"
                [] gpc = "variables.tf" -> "terraform.tfvars.json"
                [] gpc = "terraform.tfvars.json" -> "backend.tf"
                [] gpc = "backend.tf" ->
                      IF Len(generateOutputsTf(stacks)) > 0 THEN "outputs.tf"
                      ELSE "README_RUN.md"
                [] gpc = "outputs.tf" -> "README_RUN.md"
                [] OTHER -> "generated"
    /\ UNCHANGED <<stacks, genErr>>
    /\ GenKeep

\* execute: the pre-build patch reads and rewrites the variables file, or
\* fails and is logged
GenPreBuildPatch ==
    /\ gpc = "generated"
    /\ \E o \in {"ok", "fail"} :
          tfVars' = IF PreBuildPatchApplies(plan[1], repoFacts[1]) /\ o = "ok"
                    THEN Some(PreBuildVars(tfVars[1])) ELSE tfVars
    /\ gpc' = "built"
    /\ UNCHANGED <<stacks, disk, mainTf, genErr, backendTf>>
    /\ GenKeep

\* execute, real mode: the pre-deploy patch reads and rewrites the variables
\* file, or fails and is logged; runTerraform is called next
GenPreDeployPatch ==
    /\ gpc = "built"
    /\ input.useReal
    /\ \E o \in {"ok", "fail"} :
          tfVars' = IF o = "ok"
                    THEN Some(PreDeployVars(tfVars[1], plan[1], deploySpec[1], repoFacts[1],
                                            imageUri))
                    ELSE tfVars
    /\ gpc' = "terraform"
    /\ UNCHANGED <<stacks, disk, mainTf, genErr, backendTf>>
    /\ GenKeep

GenNext == GenEnsureDir \/ GenCopy \/ GenWrite \/ GenPreBuildPatch \/ GenPreDeployPatch

\* Plan values handed to generateIaC
GenPlans ==
    [runtime : {"apprunner", "ecs_fargate", "s3_cloudfront", "ec2"},
     db : {"null", "postgres"}, front : {"null", "s3_cloudfront"}, host : {"null"}]

GenSpecs == {ds \in PlannerSpecs : ds.cost # "high" /\ ds.db = "null" /\ ds.domain = "null"}

\* the template directories present: all of them, or all but one
TemplateSets == {AllStacks} \cup {AllStacks \ {s} : s \in AllStacks}

GenInit ==
    /\ tpc = "init"
    /\ cmds = << >>
    /\ tlogs = << >>
    /\ tfplan = FALSE
    /\ planSite = "none"
    /\ planInv = 0
    /\ planRets = << >>
    /\ lockId = NoId
    /\ applyErr = "ok"
    /\ recErrs = << >>
    /\ tfResult = None
    /\ pc = "generateIaC"
    /\ logs = << >>
    /\ run = [id |-> "none", status |-> "none", logs |-> << >>, error |-> None, service_url |-> None]
    /\ input \in [descOk : {TRUE}, branch : {"none"}, useReal : BOOLEAN, registry : BOOLEAN,
                  sink : {"ok"}, outputs : {"stack"}, uuids : {<<"u1", "u2">>},
           tfEnv : {NoTfEnv}]
    /\ deploySpec \in {Some(ds) : ds \in GenSpecs}
    /\ repoFacts \in {Some(f) : f \in PipelineFacts}
    /\ plan \in {Some(p) : p \in GenPlans}
    /\ defaultBranch = "master"
    /\ clones = << >>
    /\ imageUri \in {None, Some(<<"registry.example/app", "run-1">>)}
    /\ ops = << >>
    /\ fails = << >>
    /\ result = None
    /\ rejected = FALSE
    /\ errors = None
    /\ gpc = "ensureDir"
    /\ templates \in TemplateSets
    /\ stacks = << >>
    /\ disk = {}
    /\ mainTf = None
    /\ tfVars = None
    /\ genErr = None
    /\ backendTf = << >>
    /\ LockIdle

SpecGenerator == GenInit /\ [][GenNext]_vars

(***************************************************************************)
(* Claims about the generator                                              *)
(***************************************************************************)
Selected == pc = "generateIaC" /\ Len(stacks) > 0
GPlan == plan[1]

\* C21 as stated: the static-site stack is selected whenever the runtime or
\* the front is s3_cloudfront, whatever the runtime.
C21_Original ==
    (Selected /\ (GPlan.runtime = "s3_cloudfront" \/ GPlan.front = "s3_cloudfront"))
       => Includes(stacks, "cloudfront_s3_static_site")

\* C22: with the runtime s3_cloudfront neither the registry stack nor a
\* container runtime stack is selected, and without database and front the
\* selection is exactly the static-site stack.
C22_StaticStacks ==
    (Selected /\ GPlan.runtime = "s3_cloudfront") =>
       /\ ~Includes(stacks, "ecr")
       /\ ~Includes(stacks, "apprunner_service")
       /\ ~Includes(stacks, "ecs_fargate_service")
       /\ (GPlan.db = "null" /\ GPlan.front = "null")
             => stacks = <<"cloudfront_s3_static_site">>

\* C22 witness: a static plan without database and front, generated to the
\* end with the one module copied
C22_Witness ==
    /\ gpc = "generated"
    /\ GPlan = [runtime |-> "s3_cloudfront", db |-> "null", front |-> "null", host |-> "null"]
    /\ stacks = <<"cloudfront_s3_static_site">>
    /\ <<"modules", "cloudfront_s3_static_site">> \in disk
    /\ ~(<<"modules", "ecr">> \in disk)

\* the number of module blocks of the written main.tf that carry the name s
BlocksOf(s) == Cardinality({i \in 1..Len(mainTf[1]) : mainTf[1][i].module = s})

\* C23 as stated: the main.tf written holds exactly one module block for each
\* selected stack and none for a stack that was not selected.
C23_Original ==
    mainTf # None =>
       \A s \in AllStacks : BlocksOf(s) = IF Includes(stacks, s) THEN 1 ELSE 0

ContainerStacks == {"apprunner_service", "ecs_fargate_service"}

\* C24 as stated: when the database stack is selected together with a
\* container runtime stack, the env_vars argument of the runtime module block
\* holds the database module's connection string.
C24_Original ==
    (mainTf # None /\ Includes(stacks, "rds_postgres")) =>
       \A i \in 1..Len(mainTf[1]) :
          mainTf[1][i].module \in ContainerStacks =>
             \E j \in 1..Len(mainTf[1][i].env_vars) :
                mainTf[1][i].env_vars[j] = "POSTGRES_URL = module.rds_postgres.database_url"

\* generateIaC rejected because the template directory of a selected stack is
\* missing
TemplateMissing ==
    /\ gpc = "failed"
    /\ \E i \in 1..Len(stacks) : stacks[i] \notin templates

\* C25 as stated: when the template directory of a selected stack is missing,
\* generateIaC fails with nothing written under the work directory: no module
\* of an earlier stack and no root file.
C25_Original == TemplateMissing => disk \subseteq {<<"workdir">>}

\* the sizing table: perf hint -> <<cpu, memory>> per runtime family
ServiceSizes ==
    [low |-> <<"0.25 vCPU", "0.5 GB">>, standard |-> <<"0.25 vCPU", "0.5 GB">>,
     high |-> <<"1 vCPU", "2 GB">>]
ClusterSizes ==
    [low |-> <<"256", "512">>, standard |-> <<"512", "1024">>, high |-> <<"1024", "2048">>]

\* C26: the variables file written by the generator follows the sizing table
\* for every perf hint (cpu/memory for apprunner, fargate_cpu/fargate_memory
\* for ecs_fargate), and it still does after the pre-build and pre-deploy
\* patches, when Terraform is invoked in real mode.
C26_Sizing ==
    tfVars # None =>
       LET v == tfVars[1]
           perf == deploySpec[1].perf
       IN /\ GPlan.runtime = "apprunner" =>
                <<v["cpu"], v["memory"]>> = ServiceSizes[perf]
          /\ GPlan.runtime = "ecs_fargate" =>
                <<v["fargate_cpu"], v["fargate_memory"]>> = ClusterSizes[perf]

\* C26 witness: Terraform is about to be invoked in real mode for a cluster
\* plan under the perf hint low, after the pre-deploy patch changed the port
\* and the image and left the sizes alone
C26_Witness ==
    /\ gpc = "terraform"
    /\ input.useReal
    /\ GPlan.runtime = "ecs_fargate"
    /\ deploySpec[1].perf = "low"
    /\ imageUri # None
    /\ tfVars[1]["app_port"] = 5000
    /\ tfVars[1]["image_uri"] = imageUri[1]
    /\ tfVars[1]["fargate_cpu"] = "256"
    /\ tfVars[1]["fargate_memory"] = "512"

\* C27: the plan createPlan returns passes validatePlan with the same inputs:
\* the list is empty, the plan is not s3_cloudfront with an http app, not
\* apprunner with more than one http app, and holds no database nobody
\* needs or requests.
C27_PlanIsValid ==
    Validated =>
       /\ errors[1] = << >>
       /\ ~StaticWithHttp
       /\ ~AppRunnerMultiHttp
       /\ ~UnneededDb

\* C27 witness: a monorepo of a static app and an http app that needs a
\* database, planned under cost low on apprunner with a static front, passes
\* the validation
C27_Witness ==
    /\ Validated
    /\ errors[1] = << >>
    /\ MixedMonorepo /\ AnyNeedsDb(repoFacts[1]) /\ Hints.cost = "low"
    /\ plan[1].runtime = "apprunner" /\ plan[1].front = "s3_cloudfront"
    /\ plan[1].db = "postgres"

\* C28 as stated: the static, http and background apps createPlan counts are
\* pairwise disjoint for every combination of role, language, framework and
\* start command.
C28_Original ==
    Planned =>
       /\ StaticIdx(repoFacts[1]) \cap HttpIdx(repoFacts[1]) = {}
       /\ StaticIdx(repoFacts[1]) \cap WorkerIdx(repoFacts[1]) = {}
       /\ HttpIdx(repoFacts[1]) \cap WorkerIdx(repoFacts[1]) = {}

\* C29: with cost low and perf high together, exactly one http app and no
\* background app give the runtime ecs_fargate, whatever the monorepo flag:
\* the cost rule runs first and the perf rule overrides it.
C29_CostBeforePerf ==
    (Planned /\ Hints.cost = "low" /\ Hints.perf = "high" /\ SingleHttp) =>
       /\ PlanUnder("low", "standard").runtime = "apprunner"
       /\ plan[1].runtime = "ecs_fargate"

\* C29 witness: a monorepo with one http app, a cluster under standard
\* hints, downgraded by cost low alone and planned on ecs_fargate under both
\* hints
C29_Witness ==
    /\ Planned /\ Hints.cost = "low" /\ Hints.perf = "high" /\ SingleHttp
    /\ repoFacts[1].monorepo
    /\ PlanUnder("standard", "standard").runtime = "ecs_fargate"
    /\ PlanUnder("low", "standard").runtime = "apprunner"
    /\ plan[1].runtime = "ecs_fargate"

(***************************************************************************)
(* Two runs of the runner on one remote state backend                      *)
(***************************************************************************)
Runs == {1, 2}

\* the terraform commands of apply() that take the state lock: the first
\* plan, its retry after a force-unlock, the first apply, and the plan, plan
\* retry and apply of the recovery from a lock error of the first apply
LockCmds == {"plan1", "planR1", "apply1", "plan2", "planR2", "apply2"}
ApplyCmds == {"apply1", "apply2"}
UnlockSites == {"unlockP1", "unlockA", "unlockP2"}

\* where a run goes when the command returns
AfterOk(c) ==
    CASE c \in {"plan1", "planR1"} -> <<"apply1", "call">>
      [] c \in {"plan2", "planR2"} -> <<"apply2", "call">>
      [] OTHER -> <<"done", "ok">>

\* where a run goes when the command fails with the lock signature and a
\* lock ID: the catch blocks of plan() and apply() call force-unlock, the
\* catch blocks around the retries return the failure
AfterConflict(c) ==
    CASE c = "plan1" -> <<"unlockP1", "call">>
      [] c = "apply1" -> <<"unlockA", "call">>
      [] c = "plan2" -> <<"unlockP2", "call">>
      [] OTHER -> <<"done", "failed">>

\* the command called after a successful force-unlock
AfterUnlock(u) ==
    CASE u = "unlockP1" -> <<"planR1", "call">>
      [] u = "unlockA" -> <<"plan2", "call">>
      [] OTHER -> <<"planR2", "call">>

LockKeep == UNCHANGED <<runnerVars, logs, run, pc, input, deploySpec, repoFacts, plan,
                        defaultBranch, clones, imageUri, ops, fails, result, rejected, errors,
                        genVars>>

\* the terraform process of a called plan or apply takes the state lock, or
\* fails at once with the lock error that names the lock it found
LockAcquire(r) ==
    /\ runAt[r][1] \in LockCmds /\ runAt[r][2] = "call"
    /\ IF backendLock = None
       THEN /\ backendLock' = Some(<<r, runAt[r][1]>>)
            /\ runAt' = [runAt EXCEPT ![r] = <<runAt[r][1], "run">>]
            /\ UNCHANGED seenLock
       ELSE /\ seenLock' = [seenLock EXCEPT ![r] = backendLock]
            /\ runAt' = [runAt EXCEPT ![r] = AfterConflict(runAt[r][1])]
            /\ UNCHANGED backendLock
    /\ UNCHANGED forced
    /\ LockKeep

\* the running plan or apply ends: it releases the lock if the lock is still
\* its own, and the run goes on or fails
LockRelease(r) ==
    /\ runAt[r][1] \in LockCmds /\ runAt[r][2] = "run"
    /\ backendLock' = IF backendLock = Some(<<r, runAt[r][1]>>) THEN None ELSE backendLock
    /\ \E o \in {"ok", "plain"} :
          runAt' = [runAt EXCEPT ![r] = IF o = "ok" THEN AfterOk(runAt[r][1])
                                        ELSE <<"done", "failed">>]
    /\ UNCHANGED <<seenLock, forced>>
    /\ LockKeep

\* terraform force-unlock -force <id>: removes the lock with that ID, whoever
\* holds it, and fails when the backend holds no lock with that ID
ForceUnlock(r) ==
    /\ runAt[r][1] \in UnlockSites
    /\ IF backendLock # None /\ backendLock = seenLock[r]
       THEN /\ backendLock' = None
            /\ forced' = Append(forced, [by |-> r, holder |-> backendLock[1][1],
                                         running |-> runAt[backendLock[1][1]] =
                                                        <<backendLock[1][2], "run">>])
            /\ runAt' = [runAt EXCEPT ![r] = AfterUnlock(runAt[r][1])]
       ELSE /\ runAt' = [runAt EXCEPT ![r] = <<"done", "failed">>]
            /\ UNCHANGED <<backendLock, forced>>
    /\ UNCHANGED seenLock
    /\ LockKeep

LockNext == \E r \in Runs : LockAcquire(r) \/ LockRelease(r) \/ ForceUnlock(r)

LockInit ==
    /\ tpc = "init"
    /\ cmds = << >>
    /\ tlogs = << >>
    /\ tfplan = FALSE
    /\ planSite = "none"
    /\ planInv = 0
    /\ planRets = << >>
    /\ lockId = NoId
    /\ applyErr = "ok"
    /\ recErrs = << >>
    /\ tfResult = None
    /\ pc = "concurrent"
    /\ logs = << >>
    /\ run = [id |-> "none", status |-> "none", logs |-> << >>, error |-> None, service_url |-> None]
    /\ input = [descOk |-> TRUE, branch |-> "none", useReal |-> TRUE, registry |-> FALSE,
                sink |-> "ok", outputs |-> "stack", uuids |-> <<"u1", "u2">>,
                tfEnv |-> NoTfEnv]
    /\ deploySpec = None
    /\ repoFacts = None
    /\ plan = None
    /\ defaultBranch = "master"
    /\ clones = << >>
    /\ imageUri = None
    /\ ops = << >>
    /\ fails = << >>
    /\ result = None
    /\ rejected = FALSE
    /\ errors = None
    /\ GenIdle
    /\ backendLock = None
    /\ runAt = [r \in Runs |-> <<"plan1", "call">>]
    /\ seenLock = [r \in Runs |-> None]
    /\ forced = << >>

SpecLock == LockInit /\ [][LockNext]_vars

\* C30 as stated: a run never force-unlocks a lock that another run, still
\* executing the command that took it, holds, and at no time do two runs
\* execute terraform apply on the same state together.
C30_Original ==
    /\ \A i \in 1..Len(forced) :
          ~(forced[i].holder # forced[i].by /\ forced[i].running)
    /\ ~(\E a, b \in Runs :
            /\ a # b
            /\ runAt[a][1] \in ApplyCmds /\ runAt[a][2] = "run"
            /\ runAt[b][1] \in ApplyCmds /\ runAt[b][2] = "run")

(***************************************************************************)
(* The recoveries of a failed apply                                        *)
(***************************************************************************)
\* the commands of the two recoveries of apply(): the import, and the
\* force-unlock issued by apply() itself (plan() issues its own inside an
\* invocation, inv > 0)
ImportIdx == CmdIdx("import")
ApplyUnlockIdx == {i \in CmdIdx("force-unlock") : cmds[i].inv = 0}
ImportRecovered == \E i \in CmdIdx("apply") : cmds[i].arg = "import" /\ cmds[i].out = "ok"
LockRecoveryRan ==
    /\ ApplyUnlockIdx # {}
    /\ \A i \in ApplyUnlockIdx :
          /\ cmds[i].out = "ok" =>
                \E j \in CmdIdx("plan") : j > i /\ cmds[j].arg = "lock"
          /\ \A j \in CmdIdx("apply") : cmds[j].arg = "lock" => j > i

\* C31: once the runner has returned after a failed first apply: with both
\* signatures in the output the import recovery ran first and the lock
\* recovery (force-unlock, then plan, then apply) ran after it exactly when
\* the import recovery did not end in a successful apply; with one
\* signature only that recovery ran; with none the failed apply is the last
\* command issued.  A run whose first apply did not fail issues no recovery
\* command.
C31_IndependentRecoveries ==
    /\ ~FirstApplyFailed => ImportIdx = {} /\ ApplyUnlockIdx = {}
    /\ (Returned /\ FirstApplyFailed) =>
          LET o == FirstApplyOut
          IN /\ (ExistsSig(o) /\ NeedsUnlock(o)) =>
                   /\ Cardinality(ImportIdx) = 1
                   /\ \A i \in ImportIdx : \A j \in ApplyUnlockIdx : i < j
                   /\ ImportRecovered <=> ApplyUnlockIdx = {}
                   /\ ~ImportRecovered => LockRecoveryRan
             /\ (ExistsSig(o) /\ ~NeedsUnlock(o)) =>
                   Cardinality(ImportIdx) = 1 /\ ApplyUnlockIdx = {}
             /\ (~ExistsSig(o) /\ NeedsUnlock(o)) =>
                   ImportIdx = {} /\ LockRecoveryRan
             /\ (~ExistsSig(o) /\ ~NeedsUnlock(o)) =>
                   cmds[Len(cmds)] = cmds[Min(CmdIdx("apply"))]
    /\ Cardinality(ApplyUnlockIdx) <= 1

\* the apply failed with both signatures, the import recovery's apply failed
\* and the lock recovery then ran to a successful apply
C31_Witness ==
    /\ Returned /\ FirstApplyFailed
    /\ ExistsSig(FirstApplyOut) /\ NeedsUnlock(FirstApplyOut)
    /\ \E i \in CmdIdx("apply") : cmds[i].arg = "import" /\ cmds[i].out # "ok"
    /\ \E i \in CmdIdx("apply") : cmds[i].arg = "lock" /\ cmds[i].out = "ok"

(***************************************************************************)
(* The run record as a reader sees it                                      *)
(***************************************************************************)
Terminal == run.status \in {"success", "failed"}
LastStored == run.logs[Len(run.logs)]

\* C32: in every state a reader can observe, a run record with status
\* success or failed holds the complete log list of the pipeline, and its
\* last entry is the final 'pipeline' entry: the completion entry for
\* success, the error entry of the top-level catch for failed.
C32_TerminalLogsComplete ==
    Terminal =>
        /\ run.logs = logs
        /\ Len(run.logs) > 0
        /\ LastStored.step = "pipeline"
        /\ run.status = "success" =>
              LastStored = Info("pipeline", "Deployment pipeline completed successfully")
        /\ run.status = "failed" =>
              /\ LastStored.level = "error"
              /\ LastStored.message[1] = "Deployment pipeline failed"

\* a run ended in a terminal status although the sink never stored an entry
C32_Witness ==
    /\ Terminal
    /\ input.sink = "throws"
    /\ Len(logs) > 2

(***************************************************************************)
(* Simulated mode                                                          *)
(***************************************************************************)
Simulated == pc # "idle" /\ ~input.useReal
OpDone(op) == \E i \in 1..Len(ops) : ops[i] = op
BuildSkipWarning == Entry("build", "warn", <<"No registry URL configured, skipping image build">>)
BuildEntries == {j \in 1..Len(logs) : logs[j].step = "build"}

\* no terraform command, no Builder call, no pre-deploy rewrite of the
\* variables file
SimulatedFrame ==
    /\ cmds = << >> /\ tpc = "idle" /\ tfResult = None
    /\ ~OpDone("build")
    /\ ~OpDone("predeploy_patch")

\* a successful run reports the placeholder URL of its runtime
SimulatedUrlReported ==
    (result # None /\ result[1].success) =>
        /\ result[1].serviceUrl # None
        /\ result[1].serviceUrl[1] =
              IF plan[1].runtime = "s3_cloudfront"
              THEN <<"https://", deploySpec[1].app_name, "-static.s3.amazonaws.com/index.html">>
              ELSE <<"https://", deploySpec[1].app_name, ".amazonaws.com">>

\* C33 as stated: in simulated mode every run that reached the deploy stage
\* has the image reference registry:<run id> when a registry is configured,
\* and otherwise no image reference and the skip warning in its logs.
C33_Original ==
    Simulated =>
        /\ SimulatedFrame
        /\ OpDone("deploy") =>
              IF input.registry
              THEN imageUri = Some(<<"registry", "runId">>)
              ELSE imageUri = None /\ Logged(BuildSkipWarning)
        /\ SimulatedUrlReported

\* C33: in simulated mode a run issues no terraform command, does not call
\* the Builder and does not rewrite the variables file at the deploy stage;
\* for a runtime other than s3_cloudfront the image reference is
\* registry:<run id> when a registry is configured and otherwise unset with
\* the skip warning logged; for s3_cloudfront the build step is not entered
\* (no image reference, no build entry); a successful run reports the
\* placeholder URL of its runtime.
C33_SimulatedMode ==
    Simulated =>
        /\ SimulatedFrame
        /\ OpDone("deploy") =>
              IF plan[1].runtime = "s3_cloudfront"
              THEN imageUri = None /\ BuildEntries = {}
              ELSE IF input.registry
                   THEN imageUri = Some(<<"registry", "runId">>) /\ ~Logged(BuildSkipWarning)
                   ELSE imageUri = None /\ Logged(BuildSkipWarning)
        /\ SimulatedUrlReported

\* a simulated run of a static site with a registry configured succeeded
C33_Witness ==
    /\ Simulated /\ OpDone("deploy")
    /\ plan[1].runtime = "s3_cloudfront" /\ input.registry
    /\ result # None /\ result[1].success

(***************************************************************************)
(* The patches of the variables file                                       *)
(***************************************************************************)
PatchedKeys == {"app_port", "health_check_path", "env_vars"}

\* w is v with app_port, health_check_path and env_vars.PORT set to the
\* standard values and every other key, and every other entry of env_vars,
\* as in v
FlaskPatched(v, w) ==
    /\ DOMAIN w = DOMAIN v \cup PatchedKeys
    /\ \A k \in DOMAIN v \ PatchedKeys : w[k] = v[k]
    /\ w["app_port"] = 8080
    /\ w["health_check_path"] = "/"
    /\ w["env_vars"]["PORT"] = "8080"
    /\ LET old == IF "env_vars" \in DOMAIN v THEN v["env_vars"] ELSE << >>
       IN /\ DOMAIN w["env_vars"] = DOMAIN old \cup {"PORT"}
          /\ \A k \in DOMAIN old \ {"PORT"} : w["env_vars"][k] = old[k]

ContainerRuntimes == {"apprunner", "ecs_fargate"}
PrimaryPort ==
    IF Len(repoFacts[1].apps) > 0 /\ Len(repoFacts[1].apps[1].ports) > 0
    THEN repoFacts[1].apps[1].ports[1] ELSE 8080

\* C35 as stated: in real mode, when runTerraform is called for a plan with
\* runtime apprunner or ecs_fargate, the variables file holds the resolved
\* image reference if there is one, app_port equal to the first detected
\* port of the first app (8080 when none was detected) and env_vars.PORT
\* equal to that port as a string.
C35_Original ==
    (gpc = "terraform" /\ input.useReal /\ plan[1].runtime \in ContainerRuntimes) =>
        /\ imageUri # None => tfVars[1]["image_uri"] = imageUri[1]
        /\ tfVars[1]["app_port"] = PrimaryPort
        /\ tfVars[1]["env_vars"]["PORT"] = PortString(PrimaryPort)

\* the order of the statuses of a run record ("none": no record yet;
\* startRun's "pending" is replaced by "running" before startRun returns)
StatusRank(st) ==
    CASE st = "none" -> 0 [] st = "pending" -> 1 [] st = "running" -> 2 [] OTHER -> 3

\* C36 (steps): the status of the run record never moves backwards, it
\* reaches success or failed only from running, and once it is success or
\* failed the status, the error and the service URL no longer change.
C36_StatusSteps ==
    /\ StatusRank(run'.status) >= StatusRank(run.status)
    /\ (run'.status # run.status /\ StatusRank(run'.status) = 3) => run.status = "running"
    /\ StatusRank(run.status) = 3 =>
          /\ run'.status = run.status
          /\ run'.error = run.error
          /\ run'.service_url = run.service_url

\* C36: the status of a run record only moves along pending, running, then
\* success or failed, which are absorbing; in every state status = success
\* implies that error is unset, status = failed that error is set, and a
\* set service_url that status = success.
C36_StatusLifecycle ==
    /\ [][C36_StatusSteps]_vars
    /\ [](/\ run.status \in {"none", "pending", "running", "success", "failed"}
          /\ run.status = "success" => run.error = None
          /\ run.status = "failed" => run.error # None /\ run.error[1] # << >>
          /\ run.service_url # None => run.status = "success")

\* a run failed after its record had been running
C36_Witness ==
    /\ run.status = "failed"
    /\ run.error # None
    /\ run.service_url = None
    /\ Len(ops) > 1

(***************************************************************************)
(* The run id                                                              *)
(***************************************************************************)
\* C37 as stated: every log entry stored in the run record with id R carries
\* run_id = R, the PipelineResult of the run carries runId = R, and the work
\* directory of the run is <work root>/R.
C37_Original ==
    run.id # "none" =>
        /\ \A i \in 1..Len(run.logs) : run.logs[i].run_id = run.id
        /\ result # None => result[1].runId = run.id
        /\ OpDone("iac_generate") => WorkDir = <<"WORK_ROOT", run.id>>

(***************************************************************************)
(* The URL of a cluster deployment                                         *)
(***************************************************************************)
Declared(p) ==
    LET ks == generateOutputsTf(SelectStacks(p)) IN {ks[i] : i \in 1..Len(ks)}

\* C38: for a plan with runtime ecs_fargate the outputs file declares
\* alb_dns_name and neither service_url nor cdn_url, and every successful
\* real-mode run with that runtime returns no service URL and has logged the
\* 'No service URL found' warning.
C38_ClusterUrlUnset ==
    (plan # None /\ plan[1].runtime = "ecs_fargate") =>
        /\ Declared(plan[1]) = {"alb_dns_name"}
        /\ (input.useReal /\ result # None /\ result[1].success) =>
              /\ result[1].serviceUrl = None
              /\ Logged(NoUrlWarning)
              /\ pc = "finished" => run.status = "success" /\ run.service_url = None

\* a real run on the cluster runtime succeeded with its outputs read
C38_Witness ==
    /\ plan # None /\ plan[1].runtime = "ecs_fargate"
    /\ pc = "finished" /\ run.status = "success"
    /\ tfResult[1].outputs # None
    /\ "alb_dns_name" \in DOMAIN tfResult[1].outputs[1]

(***************************************************************************)
(* Consistency of the generated files                                      *)
(***************************************************************************)
FilesWritten == mainTf # None /\ tfVars # None /\ <<"variables.tf">> \in disk
VariablesTf == generateVariablesTf(plan[1])
DeclaredVars == {d.name : d \in VariablesTf}
\* the variables the provider block and the module blocks of the written
\* main.tf refer to
ReferencedVars == {"aws_region"} \cup UNION {mainTf[1][i].vars : i \in 1..Len(mainTf[1])}

TfEnvs == [bucket : {"null", "deploy-state"}, table : {"null", "deploy-locks"},
           key : {"null", "prod.tfstate"}]

BackendSpecs ==
    [app_name : {"autoapp", "shop"}, region : {"us-east-2", "eu-west-1"}, cost : {"standard"},
     perf : {"standard"}, db : {"null"}, domain : {"null"}]

\* generateIaC writes backend.tf for a DeploySpec
WriteBackend ==
    /\ pc = "backends"
    /\ Len(backendTf) < Cardinality(Runs)
    /\ \E ds \in BackendSpecs :
          backendTf' = Append(backendTf, BackendFile(ds, input.tfEnv))
    /\ UNCHANGED <<runnerVars, logs, run, pc, input, deploySpec, repoFacts, plan,
                   defaultBranch, clones, imageUri, ops, fails, result, rejected, errors,
                   gpc, templates, stacks, disk, mainTf, tfVars, genErr, lockVars>>

BackendInit ==
    /\ tpc = "init"
    /\ cmds = << >>
    /\ tlogs = << >>
    /\ tfplan = FALSE
    /\ planSite = "none"
    /\ planInv = 0
    /\ planRets = << >>
    /\ lockId = NoId
    /\ applyErr = "ok"
    /\ recErrs = << >>
    /\ tfResult = None
    /\ pc = "backends"
    /\ logs = << >>
    /\ run = [id |-> "none", status |-> "none", logs |-> << >>, error |-> None, service_url |-> None]
    /\ input \in [descOk : {TRUE}, branch : {"none"}, useReal : {TRUE}, registry : {FALSE},
                  sink : {"ok"}, outputs : {"stack"}, uuids : {<<"u1", "u2">>},
                  tfEnv : TfEnvs]
    /\ deploySpec = None
    /\ repoFacts = None
    /\ plan = None
    /\ defaultBranch = "master"
    /\ clones = << >>
    /\ imageUri = None
    /\ ops = << >>
    /\ fails = << >>
    /\ result = None
    /\ rejected = FALSE
    /\ errors = None
    /\ GenIdle
    /\ LockIdle

SpecBackend == BackendInit /\ [][WriteBackend]_vars

\* the remote-state location a backend file points at
Location(b) == <<b.file.bucket, b.file.key>>

\* C40 as stated: under every setting of TF_BUCKET, TF_DDB_TABLE and
\* TF_STATE_KEY, the backend files generated for two DeploySpecs with
\* different app_name point at different remote-state locations (bucket and
\* key).
C40_Original ==
    \A i, j \in 1..Len(backendTf) :
        backendTf[i].app_name # backendTf[j].app_name =>
            Location(backendTf[i]) # Location(backendTf[j])

====
